---- MODULE Spec2Model ----
(***************************************************************************)
(* Model of the aika relay bot: the pairing directory kept in Redis        *)
(* (chat:partner:<id>), the callback handlers that pair and unpair users,  *)
(* the chat relay (HandleChat) and the mode dispatch of DefaultHandler.    *)
(*                                                                         *)
(* The specifications share the variables:                                 *)
(*   Spec          handlers run one after another (no overlap);            *)
(*   SpecDelete    the same, the delete callbacks only;                    *)
(*   SpecRace      two InlineHandler invocations interleave at the         *)
(*                 granularity of single store calls;                      *)
(*   SpecDispatch  DefaultHandler, statement by statement, with its call   *)
(*                 stack;                                                  *)
(*   SpecState     the operations of the user_state store;                 *)
(*   SpecBroadcast SendMessage with its fan-out, statement by statement,   *)
(*                 the workers interleaving;                               *)
(*   SpecBroadcastFair  the same with the goroutines scheduled fairly;     *)
(*   SpecLimiter   the fan-out with the clock of its rate limiter;         *)
(*   SpecExpiry    the user_state store with the lifetime of its keys.     *)
(***************************************************************************)
EXTENDS Integers, Sequences, FiniteSets, TLC

(* ------------------------------ bounds ------------------------------- *)
\* number of distinct Telegram user ids taken into account
NumUsers == 3
\* message ids the gateway may hand out for a delivered message
MaxMsgId == 2
\* number of DefaultHandler frames that fit on the goroutine stack
MaxDepth == 3
\* clock ticks in one interval of the rate limiter (the resolution of the clock)
Interval == 2
\* last tick of the clock of SpecLimiter
MaxTime == 5
\* hours that pass in one step of the clock of SpecExpiry
TickHours == 8

Ids == 1..NumUsers
MsgIds == 1..MaxMsgId
\* h.cfg.ChannelName, the audit channel: not a user id
ChannelName == -1
\* a character of callback data that is not a decimal digit
NonDigit == 10

VARIABLES
    partner,     \* Redis keys chat:partner:<id>: a function from the ids whose key exists to the stored string
    chatUsers,   \* Redis set chat:users
    sent,        \* gateway calls made by the handler invocation that ran last
    last,        \* the handler invocation that ran last: its inputs and the path it took
    storeFault,  \* some Redis call has returned an error since the start
    prev,        \* the chat:partner keys as they were when that invocation started
    rpc,         \* SpecRace: position of each InlineHandler invocation
    rloc,        \* SpecRace: locals of each InlineHandler invocation
    userState,   \* Redis keys user_state:<id>
    just,        \* rows of the just table (id_user)
    stack,       \* SpecDispatch: frames of the goroutine that handles the update
    calls,       \* SpecDispatch: handler calls made so far for the update (caller, callee, mode read)
    crashed,     \* SpecDispatch: the goroutine stack overflowed (fatal, the process is gone)
    job,         \* SpecBroadcast: the fan-out of the running SendMessage (loop, workers, counters)
    limiter,     \* SpecLimiter: the clock and the token bucket of the fan-out's rate limiter
    expiry       \* SpecExpiry: per user_state key, the hours it has left and the hours since it was saved

vars == <<partner, chatUsers, sent, last, storeFault, prev, rpc, rloc, userState, just, stack, calls, crashed, job, limiter, expiry>>
pairVars == <<partner, chatUsers, sent, last, storeFault, prev>>
raceVars == <<rpc, rloc>>
dispatchVars == <<userState, just, stack, calls, crashed>>
jobVars == <<job, limiter>>

(* ------------------- strings stored in Redis ------------------------- *)
\* fmt/redis formatting of a non-negative int64 as decimal digits
RECURSIVE FormatInt(_)
FormatInt(n) == IF n < 10 THEN <<n>> ELSE Append(FormatInt(n \div 10), n % 10)

IsDigits(s) == \A i \in 1..Len(s) : s[i] \in 0..9

RECURSIVE DigitsValue(_)
DigitsValue(s) == IF s = <<>> THEN 0 ELSE DigitsValue(SubSeq(s, 1, Len(s) - 1)) * 10 + s[Len(s)]

\* fmt.Sscanf(s, "%d", &id): id stays 0 when no number can be scanned
parseInt64(s) ==
    LET n == IF \E i \in 1..Len(s) : s[i] \notin 0..9
             THEN (CHOOSE i \in 1..Len(s) : s[i] \notin 0..9 /\ \A j \in 1..(i-1) : s[j] \in 0..9) - 1
             ELSE Len(s)
    IN DigitsValue(SubSeq(s, 1, n))

\* strconv.ParseInt(idStr, 10, 64)
ParseInt(s) == IF Len(s) > 0 /\ IsDigits(s) THEN [ok |-> TRUE, val |-> DigitsValue(s)]
               ELSE [ok |-> FALSE, val |-> 0]

(* ------------------- ChatRepository (pairing keys) ------------------- *)
\* client.Exists on one key: number of existing keys
Exists(p, id) == IF id \in DOMAIN p THEN 1 ELSE 0

\* variants of the availability check with the comparison wrong
CheckPartnerToEmpty_Never(p, userID) == Exists(p, userID) > 1
CheckPartnerToEmpty_Negated(p, userID) == Exists(p, userID) = 0

CheckPartnerToEmpty(p, userID) == Exists(p, userID) > 0

\* variant storing the key's own id as the value
SetPartner_OwnId(p, userID, partnerID) ==
    [k \in (DOMAIN p) \cup {userID} |-> IF k = userID THEN FormatInt(userID) ELSE p[k]]
\* variant that also drops every other key naming the same partner
SetPartner_Exclusive(p, userID, partnerID) ==
    [k \in {j \in DOMAIN p : parseInt64(p[j]) # partnerID} \cup {userID} |->
        IF k = userID THEN FormatInt(partnerID) ELSE p[k]]

SetPartner(p, userID, partnerID) ==
    [k \in (DOMAIN p) \cup {userID} |-> IF k = userID THEN FormatInt(partnerID) ELSE p[k]]

\* variant that takes a missing key for a link of the user to itself
GetUserPartner_Self(p, userID) == IF userID \in DOMAIN p THEN parseInt64(p[userID]) ELSE userID

GetUserPartner(p, userID) == IF userID \in DOMAIN p THEN parseInt64(p[userID]) ELSE 0

\* variant deleting every partner key
DelPartnerKey_All(p, userID) == <<>>

DelPartnerKey(p, userID) == [k \in (DOMAIN p) \ {userID} |-> p[k]]

\* variant of RemoveUser without the Del of the partner key
RemoveUser_KeepsKey(cu, p, userID, failAt) ==
    IF failAt = 1 THEN [err |-> TRUE, chatUsers |-> cu, partner |-> p]
    ELSE [err |-> failAt = 2, chatUsers |-> cu \ {userID}, partner |-> p]

\* RemoveUser: SRem on chat:users, then Del of the partner key; failAt names
\* the store call that returns an error (0: none, 1: SRem, 2: Del)
RemoveUser(cu, p, userID, failAt) ==
    IF failAt = 1 THEN [err |-> TRUE, chatUsers |-> cu, partner |-> p]
    ELSE IF failAt = 2 THEN [err |-> TRUE, chatUsers |-> cu \ {userID}, partner |-> p]
    ELSE [err |-> FALSE, chatUsers |-> cu \ {userID}, partner |-> DelPartnerKey(p, userID)]

(* ------------------------- gateway messages -------------------------- *)
NoToken == <<>>
Msg(to, what, ref) == [to |-> to, what |-> what, ref |-> ref, tok |-> NoToken]
MsgTok(to, what, ref, tok) == [to |-> to, what |-> what, ref |-> ref, tok |-> tok]

\* record of a handler invocation: handler, sender, the id it acted on (target
\* or partner), payload kind, outcome of the forward to the partner, exit taken
NoOp == [op |-> "none", user |-> 0, arg |-> 0, kind |-> "-", fwd |-> "-", out |-> "-"]
Op(op, user, arg, kind, out) ==
    [op |-> op, user |-> user, arg |-> arg, kind |-> kind, fwd |-> "-", out |-> out]
ChatOp(user, arg, kind, fwd, out) ==
    [op |-> "chat", user |-> user, arg |-> arg, kind |-> kind, fwd |-> fwd, out |-> out]

\* exits a handler takes because a Redis call returned an error
StoreErrOuts == {"check_err", "set1_err", "set2_err", "get_err", "remove1_err", "remove2_err",
                 "prompt_get_err", "teardown_err"}
StoreFailed(l) == l.out \in StoreErrOuts

(* --------------------------- InlineHandler --------------------------- *)
\* variant that takes the first write back when the second one fails
InlineHandler_RollsBack(from, idStr, fault) ==
    LET parsed == ParseInt(idStr)
        selectedId == parsed.val
        p1 == SetPartner(partner, from, selectedId)
        p2 == SetPartner(p1, selectedId, from)
    IN
    /\ UNCHANGED chatUsers
    /\ IF ~parsed.ok THEN
            /\ partner' = partner
            /\ sent' = <<>>
            /\ last' = Op("select", from, 0, "-", "parse_err")
       ELSE IF fault = 1 THEN
            /\ partner' = partner
            /\ sent' = <<>>
            /\ last' = Op("select", from, selectedId, "-", "check_err")
       ELSE IF CheckPartnerToEmpty(partner, selectedId) THEN
            /\ partner' = partner
            /\ sent' = <<Msg(from, "busy", selectedId)>>
            /\ last' = Op("select", from, selectedId, "-", "busy")
       ELSE IF fault \in {2, 3} THEN
            /\ partner' = partner
            /\ sent' = <<>>
            /\ last' = Op("select", from, selectedId, "-", IF fault = 2 THEN "set1_err" ELSE "set2_err")
       ELSE
            /\ partner' = p2
            /\ sent' = <<Msg(from, "connected", selectedId), Msg(selectedId, "connected", from)>>
            /\ last' = Op("select", from, selectedId, "-", "ok")

\* callback data "select_" + idStr from user `from`; fault names the store
\* call that fails (0: none, 1: CheckPartnerToEmpty, 2: first SetPartner,
\* 3: second SetPartner)
InlineHandler(from, idStr, fault) ==
    LET parsed == ParseInt(idStr)
        selectedId == parsed.val
        p1 == SetPartner(partner, from, selectedId)
        p2 == SetPartner(p1, selectedId, from)
    IN
    /\ UNCHANGED chatUsers
    /\ IF ~parsed.ok THEN
            /\ partner' = partner
            /\ sent' = <<>>
            /\ last' = Op("select", from, 0, "-", "parse_err")
       ELSE IF fault = 1 THEN
            /\ partner' = partner
            /\ sent' = <<>>
            /\ last' = Op("select", from, selectedId, "-", "check_err")
       ELSE IF CheckPartnerToEmpty(partner, selectedId) THEN
            /\ partner' = partner
            /\ sent' = <<Msg(from, "busy", selectedId)>>
            /\ last' = Op("select", from, selectedId, "-", "busy")
       ELSE IF fault = 2 THEN
            /\ partner' = partner
            /\ sent' = <<>>
            /\ last' = Op("select", from, selectedId, "-", "set1_err")
       ELSE IF fault = 3 THEN
            /\ partner' = p1
            /\ sent' = <<>>
            /\ last' = Op("select", from, selectedId, "-", "set2_err")
       ELSE
            /\ partner' = p2
            /\ sent' = <<Msg(from, "connected", selectedId), Msg(selectedId, "connected", from)>>
            /\ last' = Op("select", from, selectedId, "-", "ok")

(* ------------------------ CallbackHandlerExit ------------------------ *)
\* fault: 0 none, 1 GetUserPartner, 2/3 SRem/Del of RemoveUser(userID),
\* 4/5 SRem/Del of RemoveUser(partnerID)
CallbackHandlerExit(userID, fault) ==
    LET partnerID == GetUserPartner(partner, userID)
        r1 == RemoveUser(chatUsers, partner, userID, IF fault \in {2, 3} THEN fault - 1 ELSE 0)
        r2 == RemoveUser(r1.chatUsers, r1.partner, partnerID, IF fault \in {4, 5} THEN fault - 3 ELSE 0)
    IN
    IF fault = 1 THEN
        /\ UNCHANGED <<partner, chatUsers>>
        /\ sent' = <<>>
        /\ last' = Op("exit", userID, 0, "-", "get_err")
    ELSE IF r1.err THEN
        /\ partner' = r1.partner
        /\ chatUsers' = r1.chatUsers
        /\ sent' = <<>>
        /\ last' = Op("exit", userID, partnerID, "-", "remove1_err")
    ELSE IF partnerID # 0 THEN
        IF r2.err THEN
            /\ partner' = r2.partner
            /\ chatUsers' = r2.chatUsers
            /\ sent' = <<>>
            /\ last' = Op("exit", userID, partnerID, "-", "remove2_err")
        ELSE
            /\ partner' = r2.partner
            /\ chatUsers' = r2.chatUsers
            /\ sent' = <<Msg(partnerID, "partner_left", 0), Msg(userID, "you_left", 0)>>
            /\ last' = Op("exit", userID, partnerID, "-", "ok")
    ELSE
        /\ partner' = r1.partner
        /\ chatUsers' = r1.chatUsers
        /\ sent' = <<Msg(userID, "you_left", 0)>>
        /\ last' = Op("exit", userID, 0, "-", "ok")

(* ----------------------------- HandleChat ---------------------------- *)
Kinds == {"text", "photo", "video", "voice", "video_note", "document", "audio",
          "location", "sticker", "contact", "poll", "unknown"}

\* variant taking every error of the forward for a block
IsBlocked_AnyError(fwd) == fwd # "ok"
\* err.Error() == "forbidden, Forbidden: bot was blocked by the user"
IsBlocked(fwd) == fwd = "blocked"

\* the case of the switch that returns when the forward failed
ReturnsAfterForwardError(kind) == kind # "text"

\* copies sent to the audit channel at the end of a case
AuditMsgs(kind, userID, partnerID) ==
    IF kind \in {"video_note", "sticker"}
    THEN <<Msg(ChannelName, "audit_media", 0), MsgTok(ChannelName, "audit", userID, <<partnerID>>)>>
    ELSE <<MsgTok(ChannelName, "audit", userID, <<partnerID>>)>>

\* delete_%d_%d_%d_%d
DeleteToken(senderChatID, senderMsgID, partnerChatID, partnerMsgID) ==
    <<senderChatID, senderMsgID, partnerChatID, partnerMsgID>>

\* getErr: GetUserPartner fails; fwd: outcome of the forward; rmFault: store
\* call of the teardown that fails (0 none, 1/2 SRem/Del for the sender, 3/4
\* for the partner); echoOk: the echo to the sender is delivered; pmid, smid:
\* ids of the delivered messages; nilOnErr: the gateway returns a nil message
\* together with an error (otherwise a zero-valued one)
\* The result of one invocation on the store (p, cu): the store afterwards,
\* the gateway calls made and the record of the invocation.
HandleChat(p, cu, userID, kind, getErr, fwd, rmFault, echoOk, pmid, smid, nilOnErr) ==
    LET partnerID == IF getErr THEN 0 ELSE GetUserPartner(p, userID)
        r1 == RemoveUser(cu, p, userID, IF rmFault \in {1, 2} THEN rmFault ELSE 0)
        r2 == RemoveUser(r1.chatUsers, r1.partner, partnerID, IF rmFault \in {3, 4} THEN rmFault - 2 ELSE 0)
        forward == Msg(partnerID, "forward", userID)
        \* sends and store state up to the end of the `if err != nil` block
        teardown ==
            IF ~IsBlocked(fwd) THEN [p |-> p, cu |-> cu, s |-> <<forward>>, ret |-> FALSE]
            ELSE IF r1.err THEN [p |-> r1.partner, cu |-> r1.chatUsers, s |-> <<forward>>, ret |-> TRUE]
            ELSE IF r2.err THEN [p |-> r2.partner, cu |-> r2.chatUsers, s |-> <<forward>>, ret |-> TRUE]
            ELSE [p |-> r2.partner, cu |-> r2.chatUsers,
                  s |-> <<forward, Msg(userID, "partner_unreachable", 0)>>, ret |-> FALSE]
        partnerMsgID == IF fwd = "ok" THEN pmid ELSE 0
        tok == DeleteToken(userID, smid, partnerID, partnerMsgID)
        tail == <<MsgTok(userID, "edit", smid, tok)>> \o AuditMsgs(kind, userID, partnerID)
    IN
    IF partnerID = 0 THEN
        [partner |-> p, chatUsers |-> cu,
         sent |-> <<Msg(userID, "connect_prompt", 0)>>,
         last |-> ChatOp(userID, 0, kind, "-", IF getErr THEN "prompt_get_err" ELSE "prompt")]
    ELSE IF kind = "unknown" THEN
        [partner |-> p, chatUsers |-> cu,
         sent |-> <<Msg(userID, "unsupported", 0)>>,
         last |-> ChatOp(userID, partnerID, kind, "-", "unsupported")]
    ELSE IF fwd # "ok" /\ (teardown.ret \/ ReturnsAfterForwardError(kind)) THEN
        [partner |-> teardown.p, chatUsers |-> teardown.cu,
         sent |-> teardown.s,
         last |-> ChatOp(userID, partnerID, kind, fwd,
                         IF teardown.ret THEN "teardown_err" ELSE "forward_failed")]
    ELSE IF ~echoOk THEN
        [partner |-> teardown.p, chatUsers |-> teardown.cu,
         sent |-> teardown.s \o <<Msg(userID, "echo_failed", 0)>>,
         last |-> ChatOp(userID, partnerID, kind, fwd, "echo_failed")]
    ELSE IF fwd # "ok" /\ nilOnErr THEN
        \* partnerMsg.ID on a nil *models.Message
        [partner |-> teardown.p, chatUsers |-> teardown.cu,
         sent |-> teardown.s \o <<Msg(userID, "echo", smid)>>,
         last |-> ChatOp(userID, partnerID, kind, fwd, "panic")]
    ELSE
        [partner |-> teardown.p, chatUsers |-> teardown.cu,
         sent |-> teardown.s \o <<Msg(userID, "echo", smid)>> \o tail,
         last |-> ChatOp(userID, partnerID, kind, fwd, "relayed")]

\* The environment's choices one invocation of HandleChat observes: the
\* inputs a path does not read are fixed. mayFail: a store call may fail;
\* mids: the message ids the gateway hands out.
ChatInputs(p, userID, kind, mayFail, mids) ==
    LET In(g, f, r, e, pm, sm, n) ==
            [getErr |-> g, fwd |-> f, rmFault |-> r, echoOk |-> e, pmid |-> pm, smid |-> sm,
             nilOnErr |-> n]
        paired == GetUserPartner(p, userID) # 0
        \* the echo to the sender after a forward with outcome f
        echo(f) == {In(FALSE, f, 0, FALSE, 0, 0, FALSE)} \cup
                   (IF f = "ok" THEN {In(FALSE, f, 0, TRUE, pm, sm, FALSE) : pm \in mids, sm \in mids}
                    ELSE {In(FALSE, f, 0, TRUE, 0, sm, n) : sm \in mids, n \in BOOLEAN})
        \* after a failed forward with outcome f and no failing store call
        after(f) == IF ReturnsAfterForwardError(kind) THEN {In(FALSE, f, 0, FALSE, 0, 0, FALSE)}
                    ELSE echo(f)
    IN
    (IF mayFail THEN {In(TRUE, "ok", 0, FALSE, 0, 0, FALSE)} ELSE {}) \cup
    (IF ~paired \/ kind = "unknown" THEN {In(FALSE, "ok", 0, FALSE, 0, 0, FALSE)}
     ELSE echo("ok") \cup after("error") \cup after("blocked") \cup
          (IF mayFail THEN {In(FALSE, "blocked", r, FALSE, 0, 0, FALSE) : r \in 1..4} ELSE {}))

(* ------------------------ DeleteMessageHandler ----------------------- *)
\* fmt.Sprintf("delete_%d_%d_%d_%d", ...): the callback data, as the fields
\* that follow the "delete_" prefix (each a string of characters)
CallbackData(tok) == [i \in 1..Len(tok) |-> FormatInt(tok[i])]

\* a field %d scans when a literal follows it: digits only, at least one
ScansWhole(f) == Len(f) > 0 /\ IsDigits(f)
\* the last %d: leading digits, whatever follows them
ScansPrefix(f) == Len(f) > 0 /\ f[1] \in 0..9

\* variant in which a field that is not a number scans as 0
Sscanf4_Lenient(data) ==
    [ok |-> TRUE, val |-> [i \in 1..4 |-> IF i <= Len(data) THEN parseInt64(data[i]) ELSE 0]]
\* fmt.Sscanf(data, "delete_%d_%d_%d_%d", ...)
Sscanf4(data) ==
    IF /\ Len(data) >= 4
       /\ \A i \in 1..3 : ScansWhole(data[i])
       /\ ScansPrefix(data[4])
    THEN [ok |-> TRUE, val |-> [i \in 1..4 |-> parseInt64(data[i])]]
    ELSE [ok |-> FALSE, val |-> <<0, 0, 0, 0>>]

\* record of an invocation of DeleteMessageHandler
DelOp(user, data, okSend, okPartner, out) ==
    [op |-> "delete", user |-> user, arg |-> 0, kind |-> "-", fwd |-> "-", out |-> out,
     data |-> data, okSend |-> okSend, okPartner |-> okPartner]

\* variant that gives up after a failed deletion on the sender's side
DeleteMessageHandler_StopsEarly(from, data, okSend, okPartner) ==
    LET t == Sscanf4(data) IN
    IF ~t.ok THEN [sent |-> <<>>, last |-> DelOp(from, data, FALSE, FALSE, "parse_err")]
    ELSE IF ~okSend THEN
        [sent |-> <<Msg(t.val[1], "delete", t.val[2]), Msg(from, "not_deleted", 0)>>,
         last |-> DelOp(from, data, okSend, okPartner, "not_deleted")]
    ELSE [sent |-> <<Msg(t.val[1], "delete", t.val[2]), Msg(t.val[3], "delete", t.val[4]),
                     Msg(from, IF okPartner THEN "deleted" ELSE "not_deleted", 0)>>,
          last |-> DelOp(from, data, okSend, okPartner,
                         IF okPartner THEN "deleted" ELSE "not_deleted")]

\* variant that deletes only for a requester who is one of the two chats
DeleteMessageHandler_OwnerOnly(from, data, okSend, okPartner) ==
    LET t == Sscanf4(data) IN
    IF ~t.ok THEN [sent |-> <<>>, last |-> DelOp(from, data, FALSE, FALSE, "parse_err")]
    ELSE IF from \notin {t.val[1], t.val[3]} THEN
        [sent |-> <<Msg(from, "not_deleted", 0)>>,
         last |-> DelOp(from, data, okSend, okPartner, "not_deleted")]
    ELSE [sent |-> <<Msg(t.val[1], "delete", t.val[2]), Msg(t.val[3], "delete", t.val[4]),
                     Msg(from, IF okSend /\ okPartner THEN "deleted" ELSE "not_deleted", 0)>>,
          last |-> DelOp(from, data, okSend, okPartner,
                         IF okSend /\ okPartner THEN "deleted" ELSE "not_deleted")]

\* DeleteMessageHandler for callback data `data` from user `from`; okSend,
\* okPartner: results of the two b.DeleteMessage calls
DeleteMessageHandler(from, data, okSend, okPartner) ==
    LET t == Sscanf4(data) IN
    IF ~t.ok THEN [sent |-> <<>>, last |-> DelOp(from, data, FALSE, FALSE, "parse_err")]
    ELSE [sent |-> <<Msg(t.val[1], "delete", t.val[2]), Msg(t.val[3], "delete", t.val[4]),
                     Msg(from, IF okSend /\ okPartner THEN "deleted" ELSE "not_deleted", 0)>>,
          last |-> DelOp(from, data, okSend, okPartner,
                         IF okSend /\ okPartner THEN "deleted" ELSE "not_deleted")]

\* callback data a client can send: tokens the relay builds, the same with
\* text after the last number or a further field, and data that is not a token
DeleteTokens == {DeleteToken(s, sm, q, pm) : s \in Ids, sm \in MsgIds, q \in Ids, pm \in MsgIds \cup {0}}
MalformedData == {<<>>, <<<<1>>, <<1>>, <<2>>>>, <<<<1>>, <<NonDigit>>, <<2>>, <<1>>>>,
                  <<<<1>>, <<1, NonDigit>>, <<2>>, <<1>>>>, <<<<1>>, <<1>>, <<2>>, <<NonDigit, 1>>>>,
                  <<<<1>>, <<1>>, <<2>>, <<>>>>}
DeleteData ==
    {CallbackData(t) : t \in DeleteTokens} \cup
    {<<<<1>>, <<1>>, <<2>>, <<1, NonDigit>>>>, <<<<1>>, <<1>>, <<2>>, <<1>>, <<NonDigit>>>>} \cup
    MalformedData

\* callback data after the "select_" prefix: the decimal id of a user, or
\* text that is not a number
SelectData == {FormatInt(i) : i \in Ids} \cup {<<NonDigit>>}

(* --------------- two overlapping InlineHandler invocations ----------- *)
\* the two goroutines the bot library starts for two callback queries
Procs == {1, 2}

\* the callback query arrives: data is parsed (lines 21-34)
RaceStart(p) ==
    /\ rpc[p] = "idle"
    /\ \E from \in Ids, idStr \in SelectData :
         LET parsed == ParseInt(idStr) IN
         /\ rloc' = [rloc EXCEPT ![p] = [from |-> from, sel |-> parsed.val]]
         /\ rpc' = [rpc EXCEPT ![p] = IF parsed.ok THEN "check" ELSE "parse_err"]
    /\ UNCHANGED <<pairVars, dispatchVars, jobVars, expiry>>

\* CheckPartnerToEmpty and the busy notice (lines 36-47)
RaceCheck(p) ==
    /\ rpc[p] = "check"
    /\ \E err \in BOOLEAN :
         IF err THEN
            /\ rpc' = [rpc EXCEPT ![p] = "check_err"]
            /\ UNCHANGED sent
         ELSE IF CheckPartnerToEmpty(partner, rloc[p].sel) THEN
            /\ rpc' = [rpc EXCEPT ![p] = "busy"]
            /\ sent' = Append(sent, Msg(rloc[p].from, "busy", rloc[p].sel))
         ELSE
            /\ rpc' = [rpc EXCEPT ![p] = "set1"]
            /\ UNCHANGED sent
    /\ UNCHANGED <<partner, chatUsers, last, storeFault, prev, rloc, dispatchVars, jobVars, expiry>>

\* first SetPartner (lines 49-52)
RaceSet1(p) ==
    /\ rpc[p] = "set1"
    /\ \E err \in BOOLEAN :
         IF err THEN
            /\ rpc' = [rpc EXCEPT ![p] = "set1_err"]
            /\ UNCHANGED partner
         ELSE
            /\ rpc' = [rpc EXCEPT ![p] = "set2"]
            /\ partner' = SetPartner(partner, rloc[p].from, rloc[p].sel)
    /\ UNCHANGED <<chatUsers, sent, last, storeFault, prev, rloc, dispatchVars, jobVars, expiry>>

\* second SetPartner (lines 54-57)
RaceSet2(p) ==
    /\ rpc[p] = "set2"
    /\ \E err \in BOOLEAN :
         IF err THEN
            /\ rpc' = [rpc EXCEPT ![p] = "set2_err"]
            /\ UNCHANGED partner
         ELSE
            /\ rpc' = [rpc EXCEPT ![p] = "notify"]
            /\ partner' = SetPartner(partner, rloc[p].sel, rloc[p].from)
    /\ UNCHANGED <<chatUsers, sent, last, storeFault, prev, rloc, dispatchVars, jobVars, expiry>>

\* the two confirmations (lines 59-66)
RaceNotify(p) ==
    /\ rpc[p] = "notify"
    /\ rpc' = [rpc EXCEPT ![p] = "ok"]
    /\ sent' = sent \o <<Msg(rloc[p].from, "connected", rloc[p].sel),
                          Msg(rloc[p].sel, "connected", rloc[p].from)>>
    /\ UNCHANGED <<partner, chatUsers, last, storeFault, prev, rloc, dispatchVars, jobVars, expiry>>

(* --------------------------- the fan-out job ------------------------- *)
\* no fan-out has been started. before: the recipients sendToUser was called
\* for in the earlier fan-outs the same update has caused.
NoJob == [pc |-> "none", exit |-> "-", adminId |-> 0, userIds |-> <<>>, msgType |-> "",
          audience |-> "-",
          i |-> 0, admitted |-> <<>>, worker |-> <<>>, attempts |-> <<>>,
          successCount |-> 0, failedCount |-> 0, cancelled |-> FALSE, inWait |-> FALSE,
          report |-> <<>>, before |-> {}]
\* no key of the state store carries a lifetime. ttl: the hours each key has
\* left; age, first: for each user whose state was saved, the hours since the
\* last and since the first successful save.
NoExpiry == [ttl |-> <<>>, age |-> <<>>, first |-> <<>>]
\* the limiter is not inside a reservation
NoWake == -1
\* no limiter has been created. now: the clock, in ticks; last, tokens: the
\* limiter's own fields, tokens counted in ticks (Interval of them make one
\* admission); wake: the instant the pending reservation may act; admitAt,
\* spawnAt: per worker, the instant the limiter admitted it and the instant
\* the loop started it.
NoLimiter == [now |-> 0, last |-> 0, tokens |-> 0, wake |-> NoWake,
              admitAt |-> <<>>, spawnAt |-> <<>>]

(* --------------------- handlers run one at a time -------------------- *)
Init ==
    /\ partner = <<>>
    /\ chatUsers = {}
    /\ sent = <<>>
    /\ last = NoOp
    /\ storeFault = FALSE
    /\ prev = <<>>
    /\ rpc = [p \in Procs |-> "idle"]
    /\ rloc = [p \in Procs |-> [from |-> 0, sel |-> 0]]
    /\ userState = <<>>
    /\ just = {}
    /\ stack = <<>>
    /\ calls = <<>>
    /\ crashed = FALSE
    /\ job = NoJob
    /\ limiter = NoLimiter
    /\ expiry = NoExpiry

\* no handler invocation is pending: the previous one has returned and its
\* gateway calls have been handed on
Idle == last.op = "none"

Select ==
    /\ Idle
    /\ \E from \in Ids, idStr \in SelectData, fault \in 0..3 : InlineHandler(from, idStr, fault)
    /\ storeFault' = (storeFault \/ StoreFailed(last'))
    /\ prev' = partner
    /\ UNCHANGED <<raceVars, jobVars, expiry, dispatchVars>>

Exit ==
    /\ Idle
    /\ \E userID \in Ids, fault \in 0..5 : CallbackHandlerExit(userID, fault)
    /\ storeFault' = (storeFault \/ StoreFailed(last'))
    /\ prev' = partner
    /\ UNCHANGED <<raceVars, jobVars, expiry, dispatchVars>>

\* the user who has just left presses the exit button once more
ExitAgain ==
    /\ last.op = "exit" /\ last.out = "ok"
    /\ \E fault \in 0..5 : CallbackHandlerExit(last.user, fault)
    /\ storeFault' = (storeFault \/ StoreFailed(last'))
    /\ prev' = partner
    /\ UNCHANGED <<raceVars, jobVars, expiry, dispatchVars>>

\* the handler has returned; the bot waits for the next update
Return ==
    /\ ~Idle
    /\ last' = NoOp
    /\ sent' = <<>>
    /\ prev' = partner
    /\ UNCHANGED <<partner, chatUsers, storeFault, raceVars, jobVars, expiry, dispatchVars>>

Delete ==
    /\ Idle
    /\ \E from \in Ids, data \in DeleteData, okSend \in BOOLEAN, okPartner \in BOOLEAN :
         LET r == DeleteMessageHandler(from, data, okSend, okPartner) IN
         /\ r.last.out = "parse_err" => ~okSend /\ ~okPartner
         /\ sent' = r.sent
         /\ last' = r.last
    /\ prev' = partner
    /\ UNCHANGED <<partner, chatUsers, storeFault, raceVars, jobVars, expiry, dispatchVars>>

Chat ==
    /\ Idle
    /\ \E userID \in Ids, kind \in Kinds :
       \E i \in ChatInputs(partner, userID, kind, TRUE, MsgIds) :
         LET r == HandleChat(partner, chatUsers, userID, kind, i.getErr, i.fwd, i.rmFault,
                             i.echoOk, i.pmid, i.smid, i.nilOnErr) IN
         /\ partner' = r.partner
         /\ chatUsers' = r.chatUsers
         /\ sent' = r.sent
         /\ last' = r.last
    /\ storeFault' = (storeFault \/ StoreFailed(last'))
    /\ prev' = partner
    /\ UNCHANGED <<raceVars, jobVars, expiry, dispatchVars>>

Next == Select \/ Exit \/ ExitAgain \/ Chat \/ Delete \/ Return

Spec == Init /\ [][Next]_vars

\* the delete callbacks alone: DeleteMessageHandler reads neither store
SpecDelete == Init /\ [][Delete \/ Return]_vars

NextRace ==
    \E p \in Procs : RaceStart(p) \/ RaceCheck(p) \/ RaceSet1(p) \/ RaceSet2(p) \/ RaceNotify(p)

SpecRace == Init /\ [][NextRace]_vars

(* ----------------- DefaultHandler and the operator flow -------------- *)
stateStart == "start"
stateAdminPanel == "admin_panel"
stateBroadcast == "broadcast"

\* h.cfg.AdminID, the operator's Telegram id
AdminID == 1

\* message texts the operator flow meets: the strings its switches compare
\* against, the labels its keyboards offer, and "hello" for any other
\* non-empty text. A label is written by its English gloss; "Loto " is the
\* label that ends in a blank.
Texts == {"/admin", "Close", "All", "Clients", "Loto", "Just", "Back", "hello",
          "Messages", "Loto "}
\* part_001 44-54: the buttons of the admin keyboard
adminKeyboard == {"Messages", "Close"}
\* part_000 900-916: the buttons of the broadcast menu keyboard
broadcastKeyboard == {"All", "Clients", "Loto ", "Just", "Back"}
\* texts SendMessage maps to a broadcast type (startBroadcast)
BroadcastTypeOf(text) ==
    CASE text = "All" -> "all"
      [] text = "Clients" -> "clients"
      [] text = "Loto" -> "loto"
      [] text = "Just" -> "just"
      [] OTHER -> ""

\* *domain.UserState; the operator flow sets State and BroadCastType only.
\* A string field is one run of characters ("" is the empty string); Contact
\* is a sequence of runs. NilState is the nil pointer.
UState(state, type) ==
    [State |-> state, BroadCastType |-> type, Count |-> 0, Contact |-> <<>>, IsPaid |-> FALSE]
NilState == UState("<nil>", "")

(* encoding/json: a Go string as a sequence of runs, each a character that
   JSON escapes or a stretch of characters it copies; JSON text as a
   sequence of tokens *)
Quote == "\""
Backslash == "\\"
\* json.Marshal escapes these for HTML safety
HTMLEscape(c) ==
    CASE c = "<" -> "u003c"
      [] c = ">" -> "u003e"
      [] c = "&" -> "u0026"
      [] OTHER -> ""
\* variant that copies the quote unescaped
EscapeRun_RawQuote(c) ==
    IF c = Backslash THEN <<Backslash, Backslash>>
    ELSE IF HTMLEscape(c) # "" THEN <<Backslash, HTMLEscape(c)>>
    ELSE <<c>>

EscapeRun(c) ==
    IF c = Quote THEN <<Backslash, Quote>>
    ELSE IF c = Backslash THEN <<Backslash, Backslash>>
    ELSE IF HTMLEscape(c) # "" THEN <<Backslash, HTMLEscape(c)>>
    ELSE <<c>>
\* the character an escape sequence \t stands for ("" if there is none)
Unescape(t) ==
    CASE t = Quote -> Quote
      [] t = Backslash -> Backslash
      [] t = "u003c" -> "<"
      [] t = "u003e" -> ">"
      [] t = "u0026" -> "&"
      [] OTHER -> ""

RECURSIVE EncodeRuns(_)
EncodeRuns(s) == IF s = <<>> THEN <<>> ELSE EscapeRun(Head(s)) \o EncodeRuns(Tail(s))
EncodeString(s) == <<Quote>> \o EncodeRuns(s) \o <<Quote>>

\* scan a string literal from token i on; the literal must end the text
RECURSIVE ScanString(_, _, _)
ScanString(t, i, acc) ==
    IF i > Len(t) THEN [ok |-> FALSE, val |-> <<>>]
    ELSE IF t[i] = Quote THEN [ok |-> i = Len(t), val |-> acc]
    ELSE IF t[i] = Backslash THEN
        IF i = Len(t) \/ Unescape(t[i + 1]) = "" THEN [ok |-> FALSE, val |-> <<>>]
        ELSE ScanString(t, i + 2, Append(acc, Unescape(t[i + 1])))
    ELSE ScanString(t, i + 1, Append(acc, t[i]))
DecodeString(t) ==
    IF t = <<>> \/ t[1] # Quote THEN [ok |-> FALSE, val |-> <<>>] ELSE ScanString(t, 2, <<>>)

EncodeInt(n) == [neg |-> n < 0, digits |-> FormatInt(IF n < 0 THEN -n ELSE n)]
DecodeInt(e) == IF e.neg THEN -DigitsValue(e.digits) ELSE DigitsValue(e.digits)
EncodeBool(b) == IF b THEN "true" ELSE "false"
DecodeBool(t) == t = "true"

\* a one-run string field as runs, and back
Runs(a) == IF a = "" THEN <<>> ELSE <<a>>
Atom(r) == IF r = <<>> THEN "" ELSE r[1]

\* json.Marshal(state) with the struct's json tags
Marshal(state) ==
    [state |-> EncodeString(Runs(state.State)),
     broadcast_type |-> EncodeString(Runs(state.BroadCastType)),
     count |-> EncodeInt(state.Count),
     contact |-> EncodeString(state.Contact),
     is_paid |-> EncodeBool(state.IsPaid)]
\* json.Unmarshal(data, &state)
Unmarshal(data) ==
    LET st == DecodeString(data.state)
        bt == DecodeString(data.broadcast_type)
        ct == DecodeString(data.contact)
    IN [ok |-> st.ok /\ bt.ok /\ ct.ok /\ Len(st.val) <= 1 /\ Len(bt.val) <= 1,
        state |-> [State |-> Atom(st.val), BroadCastType |-> Atom(bt.val),
                   Count |-> DecodeInt(data.count), Contact |-> ct.val,
                   IsPaid |-> DecodeBool(data.is_paid)]]

SaveUserState(us, userID, state) ==
    [k \in (DOMAIN us) \cup {userID} |-> IF k = userID THEN Marshal(state) ELSE us[k]]
\* GetUserState: the error it returns for a value that does not decode, and
\* the state (nil when the key is missing or on an error)
GetUserStateErr(us, userID) == userID \in DOMAIN us /\ ~Unmarshal(us[userID]).ok
GetUserState(us, userID) ==
    IF userID \in DOMAIN us /\ Unmarshal(us[userID]).ok THEN Unmarshal(us[userID]).state
    ELSE NilState
DeleteUserState(us, userID) == [k \in (DOMAIN us) \ {userID} |-> us[k]]

\* variant that hands the nil state on when the read fails
getOrCreateUserState_NilOnErr(us, userID, getErr, saveErr) ==
    IF getErr \/ GetUserStateErr(us, userID) THEN [state |-> NilState, us |-> us]
    ELSE IF GetUserState(us, userID) = NilState THEN
        [state |-> UState(stateStart, ""),
         us |-> IF saveErr THEN us ELSE SaveUserState(us, userID, UState(stateStart, ""))]
    ELSE [state |-> GetUserState(us, userID), us |-> us]

\* getOrCreateUserState: the state it returns and the store afterwards
getOrCreateUserState(us, userID, getErr, saveErr) ==
    IF getErr \/ GetUserStateErr(us, userID) THEN [state |-> UState(stateStart, ""), us |-> us]
    ELSE IF GetUserState(us, userID) = NilState THEN
        [state |-> UState(stateStart, ""),
         us |-> IF saveErr THEN us ELSE SaveUserState(us, userID, UState(stateStart, ""))]
    ELSE [state |-> GetUserState(us, userID), us |-> us]

\* parseMessage: the message type of an inbound message
parseMessage(kind) ==
    IF kind \in {"text", "photo", "video", "document", "video_note", "audio", "location", "contact"}
    THEN kind ELSE ""
\* sendToUser makes a gateway call only for these message types
SendsToUser(msgType) == msgType \in {"text", "photo", "video", "document", "video_note", "audio"}

\* GetAllJustUserIDs: the ids of the just table, as a sequence
RECURSIVE SeqOfSet(_)
SeqOfSet(S) == IF S = {} THEN <<>>
               ELSE LET m == CHOOSE x \in S : \A y \in S : y <= x IN <<m>> \o SeqOfSet(S \ {m})
GetAllJustUserIDs(j) == SeqOfSet(j)

\* the per-recipient sends of the fan-out over the first `admitted` ids
RECURSIVE FanOut(_, _)
FanOut(userIds, admitted) ==
    IF admitted = 0 THEN <<>>
    ELSE Append(FanOut(userIds, admitted - 1), Msg(userIds[admitted], "broadcast", 0))

\* the adminId local of the operator handlers
AdminIdOf(from) == IF from = AdminID THEN AdminID ELSE 0
\* the notice sent to the operator when the sender is someone else
Alert(from) == IF from = AdminID THEN <<>> ELSE <<Msg(AdminID, "admin_alert", from)>>

\* a stack frame: the handler, its position, and the update it was given
Frame(fn, pc, from, text, kind, mode) ==
    [fn |-> fn, pc |-> pc, from |-> from, text |-> text, kind |-> kind, mode |-> mode]
Top == stack[Len(stack)]
Pop == SubSeq(stack, 1, Len(stack) - 1)
ReplaceTop(f) == Append(Pop, f)
Call(by, fn, mode) == [by |-> by, fn |-> fn, mode |-> mode]
Running(fn, pc) == /\ ~crashed
                   /\ stack # <<>>
                   /\ Top.fn = fn
                   /\ Top.pc = pc
DefaultFrames == Cardinality({i \in DOMAIN stack : stack[i].fn = "DefaultHandler"})
\* a store call may fail only while none has failed before
Faults(S) == IF storeFault THEN {"none"} ELSE S \cup {"none"}

\* user_state keys present when the process starts (the store outlives it):
\* at most two of the keys of id 0, of the operator and of one other user
StoredStates == {UState(stateStart, ""), UState(stateAdminPanel, ""),
                 UState(stateBroadcast, "all"), UState(stateBroadcast, "clients")}
InitialStores ==
    {<<>>} \cup
    UNION { [K -> {Marshal(st) : st \in StoredStates}] : K \in {S \in SUBSET {0, AdminID, AdminID + 1} : Cardinality(S) \in {1, 2}} }

InitDispatch ==
    /\ partner \in {<<>>, SetPartner(SetPartner(<<>>, 1, 2), 2, 1)}
    /\ chatUsers = {}
    /\ sent = <<>>
    /\ last = NoOp
    /\ storeFault = FALSE
    /\ prev = <<>>
    /\ rpc = [p \in Procs |-> "idle"]
    /\ rloc = [p \in Procs |-> [from |-> 0, sel |-> 0]]
    /\ userState \in InitialStores
    /\ just \in {{}, Ids \ {AdminID}}
    /\ stack = <<>>
    /\ calls = <<>>
    /\ crashed = FALSE
    /\ job = NoJob
    /\ limiter = NoLimiter
    /\ expiry = NoExpiry

\* the dispatcher hands one update to DefaultHandler
Begin ==
    /\ ~crashed
    /\ stack = <<>>
    /\ calls = <<>>
    /\ \E from \in Ids, kind \in Kinds \cup {"no_message"} :
       \E text \in IF kind = "text" THEN Texts ELSE {""} :
         stack' = <<Frame("DefaultHandler", "enter", from, text, kind, "")>>
    /\ UNCHANGED <<pairVars, raceVars, jobVars, expiry, userState, just, calls, crashed>>

\* handler.go 111-132: nil check, registration in the just table, state lookup
DH_Enter ==
    /\ Running("DefaultHandler", "enter")
    /\ IF Top.kind = "no_message" THEN
            /\ stack' = Pop
            /\ UNCHANGED <<userState, just, storeFault>>
       ELSE \E fault \in Faults({"exists", "insert", "get", "save"}) :
            LET r == getOrCreateUserState(userState, Top.from, fault = "get", fault = "save") IN
            /\ fault = "insert" => Top.from \notin just
            /\ fault = "save" => Top.from \notin DOMAIN userState
            /\ just' = IF fault \in {"exists", "insert"} THEN just ELSE just \cup {Top.from}
            /\ userState' = r.us
            /\ storeFault' = (storeFault \/ fault # "none")
            /\ stack' = ReplaceTop([Top EXCEPT !.pc = "dispatch", !.mode = r.state.State])
    /\ UNCHANGED <<partner, chatUsers, sent, last, prev, raceVars, jobVars, expiry, calls, crashed>>

\* handler.go 146-153: the switch on userState.State
DH_Dispatch ==
    /\ Running("DefaultHandler", "dispatch")
    /\ LET callee == CASE Top.mode = stateAdminPanel -> "AdminHandler"
                       [] Top.mode = stateBroadcast -> "SendMessage"
                       [] OTHER -> "DefaultHandler"
           here == [Top EXCEPT !.pc = "chat"]
       IN
       /\ calls' = Append(calls, Call("DefaultHandler", callee, Top.mode))
       /\ IF callee = "DefaultHandler" /\ DefaultFrames = MaxDepth THEN
               /\ crashed' = TRUE
               /\ stack' = stack
          ELSE /\ crashed' = crashed
               /\ stack' = Append(ReplaceTop(here),
                                  Frame(callee, IF callee = "DefaultHandler" THEN "enter" ELSE "body",
                                        Top.from, Top.text, Top.kind, ""))
    /\ UNCHANGED <<pairVars, raceVars, jobVars, expiry, userState, just>>

\* handler.go 155-160: the relay, then return
DH_Chat ==
    /\ Running("DefaultHandler", "chat")
    /\ \E i \in ChatInputs(partner, Top.from, Top.kind, ~storeFault, {1}) :
         LET r == HandleChat(partner, chatUsers, Top.from, Top.kind, i.getErr, i.fwd, i.rmFault,
                             i.echoOk, i.pmid, i.smid, i.nilOnErr) IN
         /\ partner' = r.partner
         /\ chatUsers' = r.chatUsers
         /\ sent' = sent \o r.sent
         /\ last' = r.last
         /\ storeFault' = (storeFault \/ StoreFailed(r.last))
    /\ prev' = partner
    /\ calls' = Append(calls, Call("DefaultHandler", "HandleChat", Top.mode))
    /\ stack' = Pop
    /\ UNCHANGED <<raceVars, jobVars, expiry, userState, just, crashed>>

\* AdminHandler, whole body
AH_Body ==
    /\ Running("AdminHandler", "body")
    /\ \E fault \in Faults({"get", "write"}) :
       LET adminId == AdminIdOf(Top.from)
           state == IF fault = "get" THEN NilState ELSE GetUserState(userState, adminId)
       IN
       /\ storeFault' = (storeFault \/ fault # "none")
       /\ IF state.State = stateBroadcast THEN
               /\ fault # "write"
               /\ sent' = sent \o Alert(Top.from)
               /\ calls' = Append(calls, Call("AdminHandler", "SendMessage", state.State))
               /\ stack' = ReplaceTop([Top EXCEPT !.fn = "SendMessage"])
               /\ UNCHANGED userState
          ELSE IF Top.text = "/admin" THEN
               /\ userState' = IF fault = "write" THEN userState
                               ELSE SaveUserState(userState, adminId, UState(stateAdminPanel, ""))
               /\ sent' = sent \o Alert(Top.from) \o <<Msg(adminId, "admin_panel", 0)>>
               /\ stack' = Pop
               /\ UNCHANGED calls
          ELSE IF Top.text = "Close" THEN
               \* handleCloseAdmin
               /\ userState' = IF fault = "write" THEN userState
                               ELSE DeleteUserState(userState, AdminID)
               /\ sent' = sent \o Alert(Top.from) \o <<Msg(AdminID, "admin_closed", 0)>>
               /\ stack' = Pop
               /\ UNCHANGED calls
          ELSE /\ fault # "write"
               /\ sent' = sent \o Alert(Top.from) \o
                          (IF state.State = stateAdminPanel
                           THEN <<Msg(adminId, "unknown_command", 0)>> ELSE <<>>)
               /\ stack' = Pop
               /\ UNCHANGED <<userState, calls>>
    /\ UNCHANGED <<partner, chatUsers, last, prev, raceVars, jobVars, expiry, just, crashed>>

\* SendMessage, whole body: the menu labels, Back, and the composer with its
\* fan-out. admitted: recipients the limiter admitted before the context
\* was cancelled; failed: recipients whose send returned an error.
SM_Body ==
    /\ Running("SendMessage", "body")
    /\ \E fault \in Faults({"get", "write", "db"}), statusOk \in BOOLEAN :
       LET adminId == AdminIdOf(Top.from)
           adminState == IF fault = "get" THEN NilState ELSE GetUserState(userState, adminId)
           broadcastType == adminState.BroadCastType
           msgType == parseMessage(Top.kind)
           userIds == GetAllJustUserIDs(just)
           reenter == Frame("AdminHandler", "body", adminId, "/admin", "text", "")
       IN
       /\ storeFault' = (storeFault \/ fault # "none")
       /\ IF adminState.State # stateBroadcast THEN
               /\ fault \in {"none", "get"}
               /\ statusOk
               /\ sent' = sent \o Alert(Top.from)
               /\ stack' = Pop
               /\ UNCHANGED <<userState, calls>>
          ELSE IF BroadcastTypeOf(Top.text) # "" THEN
               \* startBroadcast
               /\ fault \in {"none", "write"}
               /\ statusOk
               /\ userState' = IF fault = "write" THEN userState
                               ELSE SaveUserState(userState, adminId,
                                                  UState(stateBroadcast, BroadcastTypeOf(Top.text)))
               /\ sent' = sent \o Alert(Top.from) \o Alert(Top.from) \o
                          <<Msg(adminId, "compose_prompt", 0)>>
               /\ stack' = Pop
               /\ UNCHANGED calls
          ELSE IF Top.text = "Back" THEN
               /\ fault \in {"none", "write"}
               /\ statusOk
               /\ userState' = IF fault = "write" THEN userState
                               ELSE DeleteUserState(userState, adminId)
               /\ sent' = sent \o Alert(Top.from)
               /\ calls' = Append(calls, Call("SendMessage", "AdminHandler", adminState.State))
               /\ stack' = ReplaceTop(reenter)
          ELSE IF broadcastType # "all" \/ fault = "db" THEN
               /\ fault \in {"none", "db"}
               /\ statusOk
               /\ sent' = sent \o Alert(Top.from) \o <<Msg(adminId, "audience_error", 0)>>
               /\ stack' = Pop
               /\ UNCHANGED <<userState, calls>>
          ELSE IF userIds = <<>> THEN
               /\ fault = "none"
               /\ statusOk
               /\ sent' = sent \o Alert(Top.from) \o <<Msg(adminId, "no_recipients", 0)>>
               /\ stack' = Pop
               /\ UNCHANGED <<userState, calls>>
          ELSE IF ~statusOk THEN
               /\ fault = "none"
               /\ sent' = sent \o Alert(Top.from) \o <<Msg(adminId, "status_failed", Len(userIds))>>
               /\ stack' = Pop
               /\ UNCHANGED <<userState, calls>>
          ELSE \E admitted \in 0..Len(userIds) :
               \E failed \in SUBSET (IF SendsToUser(msgType) THEN 1..admitted ELSE {}) :
               /\ fault \in {"none", "write"}
               /\ userState' = IF fault = "write" THEN userState
                               ELSE DeleteUserState(userState, adminId)
               /\ sent' = sent \o Alert(Top.from) \o <<Msg(adminId, "status", Len(userIds))>> \o
                          (IF SendsToUser(msgType) THEN FanOut(userIds, admitted) ELSE <<>>) \o
                          <<MsgTok(adminId, "final", Len(userIds),
                                   <<admitted - Cardinality(failed), Cardinality(failed)>>)>>
               /\ calls' = Append(calls, Call("SendMessage", "AdminHandler", adminState.State))
               /\ stack' = ReplaceTop(reenter)
    /\ UNCHANGED <<partner, chatUsers, last, prev, raceVars, jobVars, expiry, just, crashed>>

NextDispatch == Begin \/ DH_Enter \/ DH_Dispatch \/ DH_Chat \/ AH_Body \/ SM_Body

SpecDispatch == InitDispatch /\ [][NextDispatch]_vars

(* ------------------- SendMessage, statement by statement ------------- *)
\* part_001 163-168: resolving the audience fails for every broadcast type
\* but "all", and when the query of the just table fails
AudienceErr_Ignored(broadcastType, dbFault) == FALSE
AudienceErr(broadcastType, dbFault) == broadcastType # "all" \/ dbFault

\* part_001 182: the audience is empty
NoRecipients_Never(userIds) == FALSE
NoRecipients(userIds) == Len(userIds) = 0

\* sendToUser: number of gateway calls it makes for a message type, and the
\* error it returns when the gateway answers gatewayOk
sendToUser(msgType, gatewayOk) ==
    IF SendsToUser(msgType) THEN [attempts |-> 1, err |-> ~gatewayOk]
    ELSE [attempts |-> 0, err |-> FALSE]

\* variant of the counters that drops the failures
AddCount_DropsFailures(j, err) ==
    IF err THEN j ELSE [j EXCEPT !.successCount = @ + 1]
\* part_001 214-219: atomic.AddInt64 on one of the two counters
AddCount(j, err) ==
    IF err THEN [j EXCEPT !.failedCount = @ + 1] ELSE [j EXCEPT !.successCount = @ + 1]

\* variant of the wait that does not look at the context
LimiterWait_IgnoresCtx(cancelled, inWait) == {"ok"}
\* part_001 207: the results limiter.Wait(ctx) can return. It returns the
\* context's error when the context is cancelled at its entry, nil after the
\* wait when the context stays live, and either of the two when the context
\* is cancelled while the loop is inside the wait (inWait).
LimiterWait(cancelled, inWait) ==
    IF ~cancelled THEN {"ok"}
    ELSE IF inWait THEN {"ok", "err"}
    ELSE {"err"}

\* part_001 202: the burst of the limiter
Burst == 1
\* part_001 202: rate.NewLimiter(rate.Every(time.Second/30), 1), created at
\* the instant l.now; its bucket is full at the first reservation
NewLimiter(l) == [NoLimiter EXCEPT !.now = l.now, !.last = l.now, !.tokens = Burst * Interval]

\* variant of the bucket that is not capped at the burst
Advance_NoCap(l) == l.tokens + (l.now - l.last)
\* rate.Limiter.advance: the tokens at l.now, one per tick since l.last,
\* capped at the burst
Advance(l) ==
    IF l.tokens + (l.now - l.last) > Burst * Interval THEN Burst * Interval
    ELSE l.tokens + (l.now - l.last)

\* rate.Limiter.reserveN for one admission at l.now: the tokens of one
\* admission are taken, the bucket going below zero when it holds fewer, and
\* the reservation may act once the bucket is back at zero
Reserve(l) ==
    LET left == Advance(l) - Interval IN
    [l EXCEPT !.last = l.now, !.tokens = left,
              !.wake = IF left < 0 THEN l.now - left ELSE l.now]

\* variant of the loop that walks the audience from its end
NextRecipient_Reversed(userIds, i) == userIds[Len(userIds) - i]
\* part_001 206, 220: the recipient of iteration i (counted from 0)
NextRecipient(userIds, i) == userIds[i + 1]

\* part_001 211-220: wg.Add(1) and the go statement of one iteration, up to
\* the entry of the next iteration's wait
Admit(j) == [j EXCEPT !.i = @ + 1,
                      !.inWait = (~j.cancelled /\ j.i + 1 < Len(j.userIds)),
                      !.admitted = Append(@, NextRecipient(j.userIds, j.i)),
                      !.worker = Append(@, "spawned"),
                      !.attempts = Append(@, 0)]

Workers == DOMAIN job.worker
\* variant without the barrier
Joined_NoBarrier == TRUE
\* part_001 223: wg.Wait returns once every worker has called wg.Done
Joined == \A w \in Workers : job.worker[w] \in {"counted_ok", "counted_err"}

InitBroadcast ==
    /\ partner = <<>>
    /\ chatUsers = {}
    /\ sent = <<>>
    /\ last = NoOp
    /\ storeFault = FALSE
    /\ prev = <<>>
    /\ rpc = [p \in Procs |-> "idle"]
    /\ rloc = [p \in Procs |-> [from |-> 0, sel |-> 0]]
    /\ userState \in {us \in InitialStores : DOMAIN us \subseteq {0, AdminID}}
    /\ just \in {{}, Ids \ {AdminID}, Ids}
    /\ stack = <<>>
    /\ calls = <<>>
    /\ crashed = FALSE
    /\ job = NoJob
    /\ limiter = NoLimiter
    /\ expiry = NoExpiry

\* variant of the composer's early returns that clears the mode first
EarlyReturn_Clears(us, adminId) == DeleteUserState(us, adminId)
\* part_001 160-200: the store as the composer leaves it when it returns
\* before the loop (audience error, empty audience, failed progress notice);
\* none of the three branches calls the state store
EarlyReturn(us, adminId) == us

\* SendMessage is called with one update (handler.go 150)
BcBegin ==
    /\ stack = <<>>
    /\ calls = <<>>
    /\ job = NoJob
    /\ \E from \in Ids, kind \in Kinds :
       \E text \in IF kind = "text" THEN Texts ELSE {""} :
         stack' = <<Frame("SendMessage", "body", from, text, kind, "")>>
    /\ UNCHANGED <<pairVars, raceVars, jobVars, expiry, userState, just, calls, crashed>>

\* part_001 89-202: everything before the loop
BcStart ==
    /\ Running("SendMessage", "body")
    /\ \E fault \in Faults({"get", "write", "db"}), statusOk \in BOOLEAN :
       LET adminId == AdminIdOf(Top.from)
           adminState == IF fault = "get" THEN NilState ELSE GetUserState(userState, adminId)
           broadcastType == adminState.BroadCastType
           msgType == parseMessage(Top.kind)
           resolveErr == AudienceErr(broadcastType, fault = "db")
           userIds == IF broadcastType # "all" \/ fault = "db" THEN <<>> ELSE GetAllJustUserIDs(just)
           reenter == Frame("AdminHandler", "body", adminId, "/admin", "text", "")
           \* the recipients whose worker has called sendToUser (part_001 211-220)
           attempted == {job.admitted[w] : w \in {v \in DOMAIN job.worker : job.attempts[v] > 0}}
           exited(how) == [NoJob EXCEPT !.exit = how, !.adminId = adminId, !.cancelled = job.cancelled,
                                        !.before = job.before \cup attempted]
           composing(how) == [exited(how) EXCEPT !.userIds = userIds, !.msgType = msgType,
                                !.audience = IF broadcastType # "all" \/ fault = "db" THEN "err" ELSE "ok"]
       IN
       /\ storeFault' = (storeFault \/ fault # "none")
       /\ IF adminState.State # stateBroadcast THEN
               /\ fault \in {"none", "get"}
               /\ statusOk
               /\ sent' = sent \o Alert(Top.from)
               /\ job' = exited("not_broadcast")
               /\ stack' = Pop
               /\ UNCHANGED <<userState, calls>>
          ELSE IF BroadcastTypeOf(Top.text) # "" THEN
               \* startBroadcast
               /\ fault \in {"none", "write"}
               /\ statusOk
               /\ userState' = IF fault = "write" THEN userState
                               ELSE SaveUserState(userState, adminId,
                                                  UState(stateBroadcast, BroadcastTypeOf(Top.text)))
               /\ sent' = sent \o Alert(Top.from) \o Alert(Top.from) \o
                          <<Msg(adminId, "compose_prompt", 0)>>
               /\ job' = exited("menu")
               /\ stack' = Pop
               /\ UNCHANGED calls
          ELSE IF Top.text = "Back" THEN
               /\ fault \in {"none", "write"}
               /\ statusOk
               /\ userState' = IF fault = "write" THEN userState
                               ELSE DeleteUserState(userState, adminId)
               /\ sent' = sent \o Alert(Top.from)
               /\ job' = exited("back")
               /\ calls' = Append(calls, Call("SendMessage", "AdminHandler", adminState.State))
               /\ stack' = ReplaceTop(reenter)
          ELSE IF resolveErr THEN
               /\ fault \in {"none", "db"}
               /\ statusOk
               /\ sent' = sent \o Alert(Top.from) \o <<Msg(adminId, "audience_error", 0)>>
               /\ job' = composing("audience_error")
               /\ stack' = Pop
               /\ userState' = EarlyReturn(userState, adminId)
               /\ UNCHANGED calls
          ELSE IF NoRecipients(userIds) THEN
               /\ fault \in {"none", "db"}
               /\ statusOk
               /\ sent' = sent \o Alert(Top.from) \o <<Msg(adminId, "no_recipients", 0)>>
               /\ job' = composing("no_recipients")
               /\ stack' = Pop
               /\ userState' = EarlyReturn(userState, adminId)
               /\ UNCHANGED calls
          ELSE IF ~statusOk THEN
               /\ fault \in {"none", "db"}
               /\ sent' = sent \o Alert(Top.from) \o <<Msg(adminId, "status_failed", Len(userIds))>>
               /\ job' = composing("status_failed")
               /\ stack' = Pop
               /\ userState' = EarlyReturn(userState, adminId)
               /\ UNCHANGED calls
          ELSE /\ fault \in {"none", "db"}
               /\ sent' = sent \o Alert(Top.from) \o <<Msg(adminId, "status", Len(userIds))>>
               /\ job' = [composing("-") EXCEPT !.pc = "loop", !.inWait = ~job.cancelled]
               /\ stack' = ReplaceTop([Top EXCEPT !.pc = "fanout"])
               /\ UNCHANGED <<userState, calls>>
    /\ limiter' = IF job'.pc = "loop" THEN NewLimiter(limiter)
                   ELSE [NoLimiter EXCEPT !.now = limiter.now]
    /\ UNCHANGED <<partner, chatUsers, last, prev, raceVars, just, crashed, expiry>>

\* the context of the update is cancelled (the process shuts down)
BcCancel ==
    /\ Running("SendMessage", "fanout")
    /\ ~job.cancelled
    /\ job' = [job EXCEPT !.cancelled = TRUE]
    /\ UNCHANGED <<pairVars, raceVars, dispatchVars, limiter, expiry>>

\* part_001 206-221, one iteration: limiter.Wait returns nil and the worker
\* of the next recipient is started
BcAdmit ==
    /\ Running("SendMessage", "fanout")
    /\ job.pc = "loop"
    /\ job.i < Len(job.userIds)
    /\ "ok" \in LimiterWait(job.cancelled, job.inWait)
    /\ job' = Admit(job)
    /\ UNCHANGED <<pairVars, raceVars, dispatchVars, limiter, expiry>>

\* part_001 206-210: the loop ends, at the last recipient or because
\* limiter.Wait returned the context's error
BcExitLoop ==
    /\ Running("SendMessage", "fanout")
    /\ job.pc = "loop"
    /\ job.i = Len(job.userIds) \/ "err" \in LimiterWait(job.cancelled, job.inWait)
    /\ job' = [job EXCEPT !.pc = "wait", !.inWait = FALSE]
    /\ UNCHANGED <<pairVars, raceVars, dispatchVars, limiter, expiry>>

\* part_001 214: the worker of recipient w calls sendToUser
W_Send ==
    /\ Running("SendMessage", "fanout")
    /\ \E w \in Workers, gatewayOk \in BOOLEAN :
       LET r == sendToUser(job.msgType, gatewayOk) IN
       /\ job.worker[w] = "spawned"
       /\ r.attempts = 0 => gatewayOk
       /\ job' = [job EXCEPT !.worker[w] = IF r.err THEN "err" ELSE "ok",
                             !.attempts[w] = @ + r.attempts]
    /\ UNCHANGED <<pairVars, raceVars, dispatchVars, limiter, expiry>>

\* part_001 213-219: the worker of recipient w adds to a counter and is done
W_Count ==
    /\ Running("SendMessage", "fanout")
    /\ \E w \in Workers :
       /\ job.worker[w] \in {"ok", "err"}
       /\ job' = [AddCount(job, job.worker[w] = "err")
                     EXCEPT !.worker[w] = IF job.worker[w] = "err" THEN "counted_err" ELSE "counted_ok"]
    /\ UNCHANGED <<pairVars, raceVars, dispatchVars, limiter, expiry>>

\* part_001 223-270: wg.Wait returns, the report is written into the progress
\* notice, the operator's state is deleted and AdminHandler is re-entered
BcJoin ==
    /\ Running("SendMessage", "fanout")
    /\ job.pc = "wait"
    /\ Joined
    /\ \E fault \in Faults({"write"}) :
       /\ storeFault' = (storeFault \/ fault # "none")
       /\ userState' = IF fault = "write" THEN userState
                       ELSE DeleteUserState(userState, job.adminId)
    /\ sent' = Append(sent, MsgTok(job.adminId, "final", Len(job.userIds),
                                   <<job.successCount, job.failedCount>>))
    /\ job' = [job EXCEPT !.pc = "done", !.exit = "report",
                          !.report = <<job.successCount, job.failedCount>>]
    /\ calls' = Append(calls, Call("SendMessage", "AdminHandler", stateBroadcast))
    /\ stack' = ReplaceTop(Frame("AdminHandler", "body", job.adminId, "/admin", "text", ""))
    /\ UNCHANGED <<partner, chatUsers, last, prev, raceVars, just, crashed, limiter, expiry>>

NextBroadcast ==
    BcBegin \/ BcStart \/ BcCancel \/ BcAdmit \/ BcExitLoop \/ W_Send \/ W_Count \/ BcJoin \/ AH_Body

SpecBroadcast == InitBroadcast /\ [][NextBroadcast]_vars

\* The handler's goroutine and every worker goroutine keep being scheduled,
\* limiter.Wait returns, and every gateway and store call returns; at the
\* start only the operator's own key is in the store.
InitBroadcastFair ==
    /\ InitBroadcast
    /\ DOMAIN userState \subseteq {AdminID}

SpecBroadcastFair ==
    /\ InitBroadcastFair
    /\ [][NextBroadcast]_vars
    /\ WF_vars(BcStart)
    /\ WF_vars(BcAdmit)
    /\ WF_vars(BcExitLoop)
    /\ WF_vars(W_Send)
    /\ WF_vars(W_Count)
    /\ WF_vars(BcJoin)
    /\ WF_vars(AH_Body)


(* ------------------------- the state store --------------------------- *)
\* UserState values handed to SaveUserState: those the handlers build, and
\* values with the remaining fields set
UserStates ==
    {UState(stateStart, ""), UState(stateAdminPanel, ""), UState(stateBroadcast, "all"),
     [UState(stateStart, "") EXCEPT !.Count = 12],
     [UState(stateStart, "") EXCEPT !.Count = -1],
     [UState(stateStart, "") EXCEPT !.IsPaid = TRUE],
     [UState(stateStart, "") EXCEPT !.Contact = <<Quote>>],
     [UState(stateStart, "") EXCEPT !.Contact = <<"a", Backslash>>],
     [UState(stateStart, "") EXCEPT !.Contact = <<"<", "u003c">>]}

\* record of a call on the state store: the state is the one saved or returned
StateOp(op, user, state, out) ==
    [op |-> op, user |-> user, arg |-> 0, kind |-> "-", fwd |-> "-", out |-> out, state |-> state]

StSave ==
    /\ Idle
    /\ \E userID \in Ids, state \in UserStates, err \in BOOLEAN :
         /\ userState' = IF err THEN userState ELSE SaveUserState(userState, userID, state)
         /\ last' = StateOp("save", userID, state, IF err THEN "save_err" ELSE "ok")
         /\ storeFault' = (storeFault \/ err)
    /\ UNCHANGED <<partner, chatUsers, sent, prev, raceVars, jobVars, expiry, just, stack, calls, crashed>>

StGet ==
    /\ Idle
    /\ \E userID \in Ids, err \in BOOLEAN :
         /\ last' = StateOp("get", userID,
                            IF err THEN NilState ELSE GetUserState(userState, userID),
                            IF err \/ GetUserStateErr(userState, userID) THEN "get_err" ELSE "ok")
         /\ storeFault' = (storeFault \/ err)
    /\ UNCHANGED <<partner, chatUsers, sent, prev, raceVars, jobVars, expiry, dispatchVars>>

StDelete ==
    /\ Idle
    /\ \E userID \in Ids, err \in BOOLEAN :
         /\ userState' = IF err THEN userState ELSE DeleteUserState(userState, userID)
         /\ last' = StateOp("delete", userID, NilState, IF err THEN "delete_err" ELSE "ok")
         /\ storeFault' = (storeFault \/ err)
    /\ UNCHANGED <<partner, chatUsers, sent, prev, raceVars, jobVars, expiry, just, stack, calls, crashed>>

\* the 24-hour expiry SaveUserState sets on the key runs out
StExpire ==
    /\ Idle
    /\ \E userID \in DOMAIN userState :
         /\ userState' = [k \in (DOMAIN userState) \ {userID} |-> userState[k]]
         /\ last' = StateOp("expire", userID, NilState, "ok")
    /\ UNCHANGED <<partner, chatUsers, sent, storeFault, prev, raceVars, jobVars, expiry, just, stack, calls, crashed>>

StGetOrCreate ==
    /\ Idle
    /\ \E userID \in Ids, getErr \in BOOLEAN, saveErr \in BOOLEAN :
         LET r == getOrCreateUserState(userState, userID, getErr, saveErr) IN
         /\ getErr => ~saveErr
         /\ saveErr => userID \notin DOMAIN userState
         /\ userState' = r.us
         /\ last' = StateOp("get_or_create", userID, r.state,
                            IF getErr THEN "get_err" ELSE IF saveErr THEN "save_err" ELSE "ok")
         /\ storeFault' = (storeFault \/ getErr \/ saveErr)
    /\ UNCHANGED <<partner, chatUsers, sent, prev, raceVars, jobVars, expiry, just, stack, calls, crashed>>

NextState == StSave \/ StGet \/ StDelete \/ StExpire \/ StGetOrCreate \/ Return

SpecState == Init /\ [][NextState]_vars

(* ===================== properties of the pairing ===================== *)
PartnerOf(u) == GetUserPartner(partner, u)
PartnerBefore(u) == GetUserPartner(prev, u)
IsAvailable(p, u) == ~CheckPartnerToEmpty(p, u)
\* gateway calls of the last invocation addressed to `to` with content `what`
SentTo(to, what) == {i \in DOMAIN sent : sent[i].to = to /\ sent[i].what = what}
SentWhat(what) == {i \in DOMAIN sent : sent[i].what = what}

\* C1: as long as no store call has failed and handlers do not overlap,
\* partner(A) = B implies partner(B) = A
C1_Symmetry ==
    ~storeFault => \A a \in Ids, b \in Ids : PartnerOf(a) = b => PartnerOf(b) = a

\* C2: as long as no store call has failed and handlers do not overlap, no
\* user is the partner of two distinct users
C2_AtMostOnePartner ==
    ~storeFault => \A x \in Ids, y \in Ids, z \in Ids :
        (PartnerOf(x) = z /\ PartnerOf(y) = z) => x = y

\* C3: after A's select_B on a B without a partner key, with the check and
\* both writes succeeding, partner(A) = B and partner(B) = A, and exactly one
\* confirmation goes to A naming B and exactly one to B naming A
C3_PairPost ==
    (/\ last.op = "select"
     /\ last.arg \in Ids /\ last.arg # last.user
     /\ last.arg \notin DOMAIN prev
     /\ ~StoreFailed(last))
    => (/\ PartnerOf(last.user) = last.arg
        /\ PartnerOf(last.arg) = last.user
        /\ Cardinality(SentTo(last.user, "connected")) = 1
        /\ Cardinality(SentTo(last.arg, "connected")) = 1
        /\ \A i \in SentTo(last.user, "connected") : sent[i].ref = last.arg
        /\ \A i \in SentTo(last.arg, "connected") : sent[i].ref = last.user)

C3_Witness ==
    /\ last.op = "select" /\ last.out = "ok" /\ last.arg # last.user
    /\ last.arg \notin DOMAIN prev

\* C4: IsAvailable(u) holds exactly when the key partner(u) is absent; right
\* after a successful pairing it is false for both users; it turns true
\* again only in an invocation that removes that user (an exit or a teardown
\* by the user or by the one whose partner the user is recorded as)
C4_Availability ==
    /\ \A u \in Ids : IsAvailable(partner, u) <=> (u \notin DOMAIN partner)
    /\ (last.op = "select" /\ last.out = "ok")
         => (~IsAvailable(partner, last.user) /\ ~IsAvailable(partner, last.arg))
    /\ \A u \in Ids : (~IsAvailable(prev, u) /\ IsAvailable(partner, u))
         => (/\ last.op \in {"exit", "chat"}
             /\ u \in {last.user, last.arg}
             /\ last.op = "chat" => last.fwd = "blocked")

C4_Witness ==
    /\ last.op = "exit" /\ last.out = "ok" /\ last.arg \in Ids
    /\ ~IsAvailable(prev, last.arg) /\ IsAvailable(partner, last.arg)

\* C5 as stated: select_B by A on another user B that has a partner key changes no key, sends
\* A exactly the busy notice and sends no confirmation
C5_BusyRejected_Original ==
    (last.op = "select" /\ last.arg \in DOMAIN prev /\ last.arg # last.user)
    => (/\ partner = prev
        /\ Cardinality(SentTo(last.user, "busy")) = 1
        /\ SentWhat("connected") = {})

\* C5 amended: select_B on a B that has a partner key changes no key and
\* sends no confirmation; when the availability check itself returns without
\* a store error, the only gateway call is the busy notice to A naming B
C5_BusyRejected ==
    (last.op = "select" /\ last.arg \in DOMAIN prev)
    => (/\ partner = prev
        /\ SentWhat("connected") = {}
        /\ last.out # "check_err" => sent = <<Msg(last.user, "busy", last.arg)>>)

C5_Witness ==
    /\ last.op = "select" /\ last.arg \in DOMAIN prev /\ last.out = "busy"
    /\ sent # <<>>

\* C7: when A, symmetrically paired with B, exits and every store call
\* succeeds, neither has a partner afterwards, B is sent the 'partner left'
\* notice and A the 'you left' notice
C7_ExitPost ==
    (/\ last.op = "exit" /\ ~StoreFailed(last)
     /\ PartnerBefore(last.user) # 0
     /\ PartnerBefore(PartnerBefore(last.user)) = last.user)
    => (/\ PartnerOf(last.user) = 0
        /\ PartnerOf(PartnerBefore(last.user)) = 0
        /\ Cardinality(SentTo(PartnerBefore(last.user), "partner_left")) = 1
        /\ Cardinality(SentTo(last.user, "you_left")) = 1)

C7_Witness ==
    /\ last.op = "exit" /\ last.out = "ok"
    /\ PartnerBefore(last.user) \notin {0, last.user}
    /\ PartnerBefore(PartnerBefore(last.user)) = last.user
    /\ partner # prev

\* C8: an exit by a user without a partner key changes no partner key and
\* addresses no gateway call to anybody else; an exit repeated right after an
\* exit that went through changes no partner key
C8_ExitIdempotent ==
    [][ /\ (last'.op = "exit" /\ last'.user \notin DOMAIN partner)
            => (/\ partner' = partner
                /\ \A i \in DOMAIN sent' : sent'[i].to = last'.user)
        /\ (last.op = "exit" /\ last.out = "ok" /\ last'.op = "exit" /\ last'.user = last.user)
            => partner' = partner
      ]_vars

C8_Witness ==
    /\ last.op = "exit" /\ last.out = "ok"
    /\ last.user \notin DOMAIN prev
    /\ prev # <<>>
    /\ sent = <<Msg(last.user, "you_left", 0)>>

\* C9: for every payload kind, a forward from A to its mutual partner B that
\* fails because B has blocked the bot, with the store calls of the teardown
\* succeeding, deletes both partner keys and sends A the 'partner
\* unreachable' notice, and the handler returns without building a delete
\* token (attached by the edit of the echo) and without an audit copy
C9_UnreachableTeardown ==
    (/\ last.op = "chat" /\ last.fwd = "blocked" /\ ~StoreFailed(last)
     /\ last.arg # last.user /\ PartnerBefore(last.arg) = last.user)
    => (/\ last.user \notin DOMAIN partner
        /\ last.arg \notin DOMAIN partner
        /\ Cardinality(SentTo(last.user, "partner_unreachable")) = 1
        /\ last.out \notin {"relayed", "panic"}
        /\ SentWhat("edit") = {}
        /\ SentWhat("audit") = {} /\ SentWhat("audit_media") = {})

\* C12: when HandleChat runs for a sender without a partner key, or the
\* partner lookup fails, the only gateway call is the connect prompt to the
\* sender and no partner key changes
C12_UnpairedNotRelayed ==
    (last.op = "chat" /\ (last.user \notin DOMAIN prev \/ last.out = "prompt_get_err"))
    => (/\ sent = <<Msg(last.user, "connect_prompt", 0)>>
        /\ partner = prev)

C12_Witness ==
    /\ last.op = "chat" /\ last.out = "prompt"
    /\ last.user \notin DOMAIN prev
    /\ prev # <<>>
    /\ sent # <<>>

\* C6: when two invocations by distinct initiators A and A' target the same
\* user B (B neither A nor A'), both pass the availability check and both
\* complete their two writes, then partner(A) = B and partner(A') = B while
\* partner(B) names exactly one of A and A': the other link is one-sided
C6_PairingRace ==
    \A p \in Procs, q \in Procs :
        (/\ p # q
         /\ rpc[p] = "ok" /\ rpc[q] = "ok"
         /\ rloc[p].sel = rloc[q].sel
         /\ rloc[p].from # rloc[q].from
         /\ rloc[p].sel \notin {rloc[p].from, rloc[q].from})
        => (/\ PartnerOf(rloc[p].from) = rloc[p].sel
            /\ PartnerOf(rloc[q].from) = rloc[p].sel
            /\ PartnerOf(rloc[p].sel) \in {rloc[p].from, rloc[q].from}
            /\ \E a \in {rloc[p].from, rloc[q].from} :
                  PartnerOf(a) = rloc[p].sel /\ PartnerOf(rloc[p].sel) # a)

C6_Witness ==
    /\ rpc[1] = "ok" /\ rpc[2] = "ok"
    /\ rloc[1].sel = rloc[2].sel
    /\ rloc[1].from # rloc[2].from
    /\ rloc[1].sel \notin {rloc[1].from, rloc[2].from}
    /\ PartnerOf(rloc[1].from) = rloc[1].sel
    /\ PartnerOf(rloc[2].from) = rloc[1].sel
    /\ PartnerOf(rloc[1].sel) = rloc[2].from

(* ===================== properties of the dispatch ==================== *)
\* the handler the mode selects
HandlerFor(mode) ==
    CASE mode = stateAdminPanel -> "AdminHandler"
      [] mode = stateBroadcast -> "SendMessage"
      [] OTHER -> "HandleChat"

\* C10: DefaultHandler never exhausts the stack, and the handler its switch on
\* the sender's stored mode invokes is AdminHandler for admin_panel,
\* SendMessage for broadcast and HandleChat for every other mode.
C10_DispatchByMode ==
    /\ ~crashed
    /\ \A i \in DOMAIN calls :
         (calls[i].by = "DefaultHandler" /\ calls[i].fn # "HandleChat")
            => calls[i].fn = HandlerFor(calls[i].mode)

\* messages HandleChat sends: the relay to the partner, the echo with its
\* token, the audit copies and the connect prompt
RelayWhats == {"forward", "echo", "edit", "audit", "audit_media", "connect_prompt",
               "partner_unreachable", "unsupported"}

\* C11: an update whose sender's stored mode is admin_panel or broadcast is
\* handled by the administrative handler only: DefaultHandler does not call
\* HandleChat for it, and nothing is relayed, copied to the audit channel or
\* prompted
C11_AdminIntercepts ==
    (calls # <<>> /\ calls[1].mode \in {stateAdminPanel, stateBroadcast})
    => (/\ \A i \in DOMAIN calls : calls[i].fn # "HandleChat"
        /\ \A i \in DOMAIN sent : sent[i].what \notin RelayWhats)

(* =================== properties of the state store =================== *)
\* the decoded state stored for a user (nil if there is none)
StoredFor(us, u) == GetUserState(us, u)

\* C13: a SaveUserState(id, s) that succeeds leaves a store from which
\* GetUserState(id) returns a state equal to s, and changes the stored state
\* of no other id; no call for another id and no read changes what is
\* stored for id
C13_StateRoundTrip ==
    [][ /\ (last'.op = "save" /\ last'.out = "ok")
            => (/\ ~GetUserStateErr(userState', last'.user)
                /\ GetUserState(userState', last'.user) = last'.state
                /\ \A k \in Ids \ {last'.user} :
                      /\ (k \in DOMAIN userState') <=> (k \in DOMAIN userState)
                      /\ StoredFor(userState', k) = StoredFor(userState, k))
        /\ \A k \in Ids :
             (last'.op \in {"save", "get", "delete", "expire", "get_or_create"}
              /\ (last'.user # k \/ last'.op = "get"))
             => (/\ (k \in DOMAIN userState') <=> (k \in DOMAIN userState)
                 /\ StoredFor(userState', k) = StoredFor(userState, k))
      ]_vars

C13_Witness ==
    /\ last.op = "save" /\ last.out = "ok"
    /\ last.state.Contact = <<Quote>>
    /\ GetUserState(userState, last.user) = last.state
    /\ \E k \in Ids \ {last.user} : k \in DOMAIN userState

\* C14 as stated: getOrCreateUserState never returns nil; it returns the
\* 'start' state when no state is stored and when the read fails; when no
\* state is stored the store holds the 'start' state afterwards, and when
\* the read failed the store is unchanged
C14_LookupNeverFails_Original ==
    [][ last'.op = "get_or_create"
        => (/\ last'.state # NilState
            /\ (last'.user \notin DOMAIN userState \/ last'.out = "get_err")
                 => last'.state = UState(stateStart, "")
            /\ (last'.user \notin DOMAIN userState /\ last'.out # "get_err")
                 => StoredFor(userState', last'.user) = UState(stateStart, "")
            /\ last'.out = "get_err" => userState' = userState)
      ]_vars

\* C14 amended: as above, but when no state is stored the store holds the
\* 'start' state afterwards only if the save succeeds; if the save fails
\* the store is unchanged (and 'start' is returned all the same)
C14_LookupNeverFails ==
    [][ last'.op = "get_or_create"
        => (/\ last'.state # NilState
            /\ (last'.user \notin DOMAIN userState \/ last'.out = "get_err")
                 => last'.state = UState(stateStart, "")
            /\ (last'.user \notin DOMAIN userState /\ last'.out = "ok")
                 => StoredFor(userState', last'.user) = UState(stateStart, "")
            /\ last'.out \in {"get_err", "save_err"} => userState' = userState
            /\ last'.user \in DOMAIN userState => userState' = userState)
      ]_vars

C14_Witness ==
    /\ last.op = "get_or_create" /\ last.out = "ok"
    /\ last.state = UState(stateStart, "")
    /\ StoredFor(userState, last.user) = UState(stateStart, "")
    /\ \E k \in Ids \ {last.user} : StoredFor(userState, k).State = stateBroadcast

(* ---------------------- properties of the fan-out -------------------- *)
CountedOk == {w \in Workers : job.worker[w] = "counted_ok"}
CountedErr == {w \in Workers : job.worker[w] = "counted_err"}

\* C15 as stated: when the final report is produced, successCount plus
\* failureCount equals the number N of recipients of the audience.
C15_TallyExact_Original ==
    job.exit = "report" => job.report[1] + job.report[2] = Len(job.userIds)

\* C15, amended: when the final report is produced, every worker that was
\* started has been counted exactly once, as a success when its sendToUser
\* returned nil and as a failure otherwise, so that successCount plus
\* failureCount equals the number of workers started; that number is N unless
\* the context was cancelled before the loop reached the last recipient.
C15_TallyExact ==
    job.exit = "report" =>
        /\ Workers = CountedOk \cup CountedErr
        /\ job.report[1] = Cardinality(CountedOk)
        /\ job.report[2] = Cardinality(CountedErr)
        /\ job.report[1] + job.report[2] = job.i
        /\ job.i = Len(job.userIds) \/ job.cancelled
\* a report over at least two recipients, all admitted, with successes and failures
C15_Witness ==
    /\ job.exit = "report"
    /\ Len(job.userIds) >= 2
    /\ job.i = Len(job.userIds)
    /\ job.report[1] >= 1
    /\ job.report[2] >= 1

\* progress notices and reports the composer has sent
ProgressNotices == SentWhat("status") \cup SentWhat("status_failed") \cup SentWhat("final")

\* C16: when the audience resolves to the empty sequence, the sender of the
\* update is sent the 'no recipients' notice and the composer stops: no
\* worker is started, no send is attempted and no progress notice is created
\* or edited.
C16_EmptyAudience ==
    (job.audience = "ok" /\ job.userIds = <<>>) =>
        /\ job.exit = "no_recipients"
        /\ sent # <<>>
        /\ sent[Len(sent)] = Msg(job.adminId, "no_recipients", 0)
        /\ Cardinality(SentWhat("no_recipients")) = 1
        /\ ProgressNotices = {}
        /\ job.i = 0
        /\ Workers = {}
        /\ job.attempts = <<>>
\* the operator composes a message while the just table is empty
C16_Witness ==
    /\ job.exit = "no_recipients"
    /\ job.adminId = AdminID
    /\ just = {}
    /\ stack = <<>>

\* C17: every worker that has finished made exactly one send attempt to its
\* recipient, whatever the kind of the composed message, and was counted as a
\* success exactly when that attempt succeeded.
C17_OneAttemptEach ==
    \A w \in Workers :
        job.worker[w] \in {"counted_ok", "counted_err"} => job.attempts[w] = 1

\* C19: when resolving the audience fails, the sender of the update is sent
\* the error notice and the composer stops: no send is attempted, no worker is
\* started and no progress notice is created.
C19_AudienceError ==
    job.audience = "err" =>
        /\ job.exit = "audience_error"
        /\ sent # <<>>
        /\ sent[Len(sent)] = Msg(job.adminId, "audience_error", 0)
        /\ Cardinality(SentWhat("audience_error")) = 1
        /\ ProgressNotices = {}
        /\ job.i = 0
        /\ Workers = {}
        /\ job.attempts = <<>>
\* the query of a non-empty just table failed for the operator's broadcast to all
C19_Witness ==
    /\ job.exit = "audience_error"
    /\ job.adminId = AdminID
    /\ StoredFor(userState, AdminID) = UState(stateBroadcast, "all")
    /\ just # {}
    /\ storeFault
    /\ stack = <<>>

\* C20: once the final report has been produced, the mode stored for the
\* operator is no longer broadcast.
C20_ModeCleared ==
    job.exit = "report" => StoredFor(userState, job.adminId).State # stateBroadcast

\* C18: while AdminHandler or SendMessage handles an update whose sender is
\* not the operator, no user_state key is written or deleted and the only
\* message sent is the alert to the operator.
C18_OperatorGating ==
    [][(/\ ~crashed
        /\ stack # <<>>
        /\ Top.fn \in {"AdminHandler", "SendMessage"}
        /\ Top.from # AdminID)
       => (/\ userState' = userState
           /\ \A i \in (Len(sent) + 1)..Len(sent') :
                sent'[i] = Msg(AdminID, "admin_alert", Top.from))]_vars

\* C21: once the context is cancelled and the loop meets it at limiter.Wait
\* (a wait entered after the cancellation, or the wait in progress returning
\* the context's error) no further worker is started; when the report is
\* produced every worker started before has been counted exactly once; and a
\* fan-out whose context is cancelled passes the barrier and produces its
\* report.
C21_Cancellation ==
    /\ [][job.cancelled /\ ~job.inWait => Len(job'.worker) <= Len(job.worker)]_vars
    /\ [](job.exit = "report" =>
            /\ Workers = CountedOk \cup CountedErr
            /\ job.report[1] + job.report[2] = Cardinality(Workers))
    /\ (job.pc \in {"loop", "wait"} /\ job.cancelled) ~> (job.pc = "done")
\* cancelled after the first and before the last admission, and reported
C21_Witness ==
    /\ job.exit = "report"
    /\ job.cancelled
    /\ job.i >= 1
    /\ job.i < Len(job.userIds)
    /\ job.report[1] + job.report[2] = job.i

\* the progress notice of the running fan-out
StatusNotice == Msg(job.adminId, "status", Len(job.userIds))
InFanOut == job.pc \in {"loop", "wait"}

\* C27 as stated: between the progress notice and its final edit nothing the
\* operator can see is produced: the notice stays the last message sent to
\* the operator and no worker sends anything to the operator.
C27_ProgressNotice_Original ==
    InFanOut =>
        /\ sent # <<>>
        /\ sent[Len(sent)] = StatusNotice
        /\ \A w \in Workers : job.admitted[w] = job.adminId => job.attempts[w] = 0

\* C27, amended: while the fan-out runs the progress notice stays the last
\* message of the handler; the workers make no gateway call except the send
\* of the payload to their own recipient (which is the operator too when the
\* operator is in the audience); the notice is edited once, with the tally of
\* the counters, and only when every worker started has been counted.
C27_ProgressNotice ==
    /\ [](InFanOut => sent # <<>> /\ sent[Len(sent)] = StatusNotice)
    /\ [][InFanOut =>
            \/ sent' = sent
            \/ /\ Workers = CountedOk \cup CountedErr
               /\ job'.pc = "done"
               /\ sent' = Append(sent, MsgTok(job.adminId, "final", Len(job.userIds),
                                             <<Cardinality(CountedOk), Cardinality(CountedErr)>>))]_vars
    /\ [](job.pc = "done" => Cardinality(SentWhat("final")) = Cardinality(SentWhat("status")))
\* a report after a fan-out in which the operator was one of the recipients
C27_Witness ==
    /\ job.pc = "done"
    /\ Len(job.worker) >= 2
    /\ \E w \in Workers : job.admitted[w] = job.adminId /\ job.attempts[w] = 1
    /\ sent[Len(sent)].what = "final"

\* C28: the workers are started in the order of the audience: the k-th worker
\* started is the one of the k-th recipient GetAllJustUserIDs returned.
C28_AdmissionOrder ==
    /\ Len(job.admitted) = job.i
    /\ Len(job.worker) = job.i
    /\ job.i <= Len(job.userIds)
    /\ job.admitted = SubSeq(job.userIds, 1, job.i)
    /\ job.audience = "ok" => job.userIds = GetAllJustUserIDs(just)
\* a later recipient's worker has finished while an earlier one's has not started its send
C28_Witness ==
    /\ Len(job.userIds) >= 2
    /\ \E v \in Workers, w \in Workers :
         /\ v < w
         /\ job.admitted[v] # job.admitted[w]
         /\ job.worker[v] = "spawned"
         /\ job.worker[w] \in {"counted_ok", "counted_err"}

\* C29: when a fan-out whose context was not cancelled has produced its
\* report, a worker was started for every recipient of the audience and a
\* send to every recipient has been attempted.
C29_AllAttempted ==
    (job.exit = "report" /\ ~job.cancelled) =>
        /\ job.admitted = job.userIds
        /\ \A w \in Workers : job.attempts[w] >= 1

(* ------------------ the state store with its expiry ------------------ *)
\* In SpecState a key may expire at any time. Here the clock advances in
\* steps of TickHours and each key carries the lifetime Redis keeps for it.

\* part_003 68: the expiration passed to client.Set, in hours
TTLHours == 24
\* the hours since a save are counted up to this value
AgeCap == TTLHours + TickHours

\* f with the value v at key k
Put(f, k, v) == [j \in (DOMAIN f) \cup {k} |-> IF j = k THEN v ELSE f[j]]

\* variant of Set that keeps the lifetime a key already has
SetEX_KeepsTTL(ttl, userID) == IF userID \in DOMAIN ttl THEN ttl ELSE Put(ttl, userID, TTLHours)
\* part_003 68: client.Set(ctx, key, data, 24*time.Hour) gives the key the
\* full lifetime, whether or not it existed
SetEX(ttl, userID) == Put(ttl, userID, TTLHours)

\* the lifetimes after TickHours: Redis drops a key whose lifetime has run out
Elapse(ttl) == [k \in {j \in DOMAIN ttl : ttl[j] > TickHours} |-> ttl[k] - TickHours]

\* the history of the saves after a successful save for userID
Saved(e, userID) ==
    [e EXCEPT !.age = Put(@, userID, 0),
              !.first = IF userID \in DOMAIN @ THEN @ ELSE Put(@, userID, 0)]
\* hours counted up to AgeCap
Older(h) == [k \in DOMAIN h |-> IF h[k] + TickHours > AgeCap THEN AgeCap ELSE h[k] + TickHours]

\* the users whose keys are followed: the operator and one other user
ExpiryUsers == {AdminID, AdminID + 1}
\* states the handlers save
ExpiryStates == {UState(stateStart, ""), UState(stateBroadcast, "all")}

\* SaveUserState(userID, state)
ExSave ==
    /\ Idle
    /\ \E userID \in ExpiryUsers, state \in ExpiryStates, err \in BOOLEAN :
         /\ userState' = IF err THEN userState ELSE SaveUserState(userState, userID, state)
         /\ expiry' = IF err THEN expiry
                      ELSE [Saved(expiry, userID) EXCEPT !.ttl = SetEX(@, userID)]
         /\ last' = StateOp("save", userID, state, IF err THEN "save_err" ELSE "ok")
         /\ storeFault' = (storeFault \/ err)
    /\ UNCHANGED <<partner, chatUsers, sent, prev, raceVars, jobVars, just, stack, calls, crashed>>

\* GetUserState(userID): a read does not touch the lifetime
ExGet ==
    /\ Idle
    /\ \E userID \in ExpiryUsers :
         last' = StateOp("get", userID, GetUserState(userState, userID), "ok")
    /\ UNCHANGED <<partner, chatUsers, sent, storeFault, prev, raceVars, jobVars, dispatchVars, expiry>>

\* getOrCreateUserState(userID): saves the 'start' state when none is stored
ExGetOrCreate ==
    /\ Idle
    /\ \E userID \in ExpiryUsers :
         LET r == getOrCreateUserState(userState, userID, FALSE, FALSE) IN
         /\ userState' = r.us
         /\ expiry' = IF userID \in DOMAIN userState THEN expiry
                      ELSE [Saved(expiry, userID) EXCEPT !.ttl = SetEX(@, userID)]
         /\ last' = StateOp("get_or_create", userID, r.state, "ok")
    /\ UNCHANGED <<partner, chatUsers, sent, storeFault, prev, raceVars, jobVars, just, stack, calls, crashed>>

\* TickHours pass
ExTick ==
    /\ Idle
    /\ expiry' = [ttl |-> Elapse(expiry.ttl), age |-> Older(expiry.age), first |-> Older(expiry.first)]
    /\ userState' = [k \in DOMAIN Elapse(expiry.ttl) |-> userState[k]]
    /\ last' = StateOp("tick", 0, NilState, "ok")
    /\ UNCHANGED <<partner, chatUsers, sent, storeFault, prev, raceVars, jobVars, just, stack, calls, crashed>>

NextExpiry == ExSave \/ ExGet \/ ExGetOrCreate \/ ExTick \/ Return

SpecExpiry == Init /\ [][NextExpiry]_vars

(* ------------------ the fan-out with the limiter's clock ------------- *)
\* In SpecBroadcast limiter.Wait is one step that takes no time. Here the
\* clock advances in ticks and limiter.Wait is the reservation followed by
\* the sleep until the reservation may act (golang.org/x/time/rate).

\* time passes while the loop runs
LimTick ==
    /\ Running("SendMessage", "fanout")
    /\ job.pc = "loop"
    /\ limiter.now < MaxTime
    /\ limiter' = [limiter EXCEPT !.now = @ + 1]
    /\ UNCHANGED <<pairVars, raceVars, dispatchVars, job, expiry>>

\* part_001 207: limiter.Wait, entered with a live context, reserves
LimReserve ==
    /\ Running("SendMessage", "fanout")
    /\ job.pc = "loop"
    /\ job.i < Len(job.userIds)
    /\ job.inWait
    /\ limiter.wake = NoWake
    /\ limiter' = Reserve(limiter)
    /\ UNCHANGED <<pairVars, raceVars, dispatchVars, job, expiry>>

\* part_001 207-220: the reservation may act, limiter.Wait returns nil and
\* the worker of the next recipient is started
LimAdmit ==
    /\ Running("SendMessage", "fanout")
    /\ job.pc = "loop"
    /\ job.i < Len(job.userIds)
    /\ limiter.wake # NoWake
    /\ limiter.now >= limiter.wake
    /\ "ok" \in LimiterWait(job.cancelled, job.inWait)
    /\ job' = Admit(job)
    /\ limiter' = [limiter EXCEPT !.wake = NoWake,
                                  !.admitAt = Append(@, limiter.wake),
                                  !.spawnAt = Append(@, limiter.now)]
    /\ UNCHANGED <<pairVars, raceVars, dispatchVars, expiry>>

InitLimiter ==
    /\ InitBroadcast
    /\ DOMAIN userState = {AdminID}
    /\ just # {}

NextLimiter ==
    BcBegin \/ BcStart \/ BcCancel \/ LimTick \/ LimReserve \/ LimAdmit \/ BcExitLoop
        \/ W_Send \/ W_Count \/ BcJoin \/ AH_Body

SpecLimiter == InitLimiter /\ [][NextLimiter]_vars

(* ============== properties of the deletion and the relay ============= *)
\* the callback data holds four integers after the prefix
IsToken(data) ==
    /\ Len(data) >= 4
    /\ \A i \in 1..3 : data[i] # <<>> /\ \A j \in DOMAIN data[i] : data[i][j] # NonDigit
    /\ data[4] # <<>> /\ data[4][1] # NonDigit
Coordinate(data, i) == parseInt64(data[i])

\* C22: for callback data with four integers, DeleteMessageHandler attempts
\* exactly two deletions, first of (senderChatID, senderMsgID), then of
\* (partnerChatID, partnerMsgID) whatever the first one's result, and then
\* sends the requester the success notice if both succeeded and the 'not
\* deleted' notice otherwise.
C22_DeleteWellFormed ==
    (last.op = "delete" /\ IsToken(last.data)) =>
        sent = <<Msg(Coordinate(last.data, 1), "delete", Coordinate(last.data, 2)),
                 Msg(Coordinate(last.data, 3), "delete", Coordinate(last.data, 4)),
                 Msg(last.user, IF last.okSend /\ last.okPartner THEN "deleted" ELSE "not_deleted", 0)>>
\* the deletion on the sender's side failed, the one on the partner's side succeeded
C22_Witness ==
    /\ last.op = "delete"
    /\ IsToken(last.data)
    /\ ~last.okSend
    /\ last.okPartner
    /\ Len(sent) = 3

\* C23 as stated: for callback data that does not hold four integers,
\* DeleteMessageHandler attempts no deletion and sends the requester a
\* failure notice.
C23_DeleteMalformed_Original ==
    (last.op = "delete" /\ ~IsToken(last.data)) =>
        /\ SentWhat("delete") = {}
        /\ SentTo(last.user, "not_deleted") # {}

\* C23, amended: for callback data that does not hold four integers,
\* DeleteMessageHandler attempts no deletion and makes no gateway call at
\* all: the failure is written to the process output only.
C23_DeleteMalformed ==
    (last.op = "delete" /\ ~IsToken(last.data)) =>
        /\ sent = <<>>
        /\ last.out = "parse_err"
\* four fields, one of them not a number
C23_Witness ==
    /\ last.op = "delete"
    /\ ~IsToken(last.data)
    /\ Len(last.data) = 4
    /\ last.out = "parse_err"

\* C24: the placeholder is patched with a delete token only after the forward
\* to the partner and the echo to the sender succeeded; the token's
\* coordinates are the sender, the id of the echo, the partner and the id of a
\* message delivered to the partner; after a failed forward no token is built
\* and no missing partner message is dereferenced.
C24_TokenFromKnownIds ==
    last.op = "chat" =>
        /\ last.out # "panic"
        /\ \A i \in SentWhat("edit") :
             /\ last.fwd = "ok"
             /\ \E j \in 1..(i - 1) : sent[j] = Msg(last.user, "echo", sent[i].ref)
             /\ \E pm \in MsgIds : sent[i].tok = DeleteToken(last.user, sent[i].ref, last.arg, pm)

\* C25: whenever HandleChat has delivered a message of a paired sender to the
\* partner, the same invocation sends a copy naming sender and partner to the
\* audit channel.
C25_RelayAudited ==
    (last.op = "chat" /\ last.fwd = "ok" /\ SentTo(last.arg, "forward") # {}) =>
        \E i \in SentTo(ChannelName, "audit") :
            sent[i] = MsgTok(ChannelName, "audit", last.user, <<last.arg>>)

\* C26: when the forward to the partner fails with an error other than 'bot
\* was blocked by the user', no partner key changes and the sender is not
\* told that the partner is unreachable.
C26_TransientKeepsPairing ==
    (last.op = "chat" /\ last.fwd = "error") =>
        /\ partner = prev
        /\ SentWhat("partner_unreachable") = {}
\* a paired sender whose forward failed with another error
C26_Witness ==
    /\ last.op = "chat"
    /\ last.fwd = "error"
    /\ PartnerOf(last.user) = last.arg
    /\ PartnerOf(last.arg) = last.user
    /\ SentTo(last.arg, "forward") # {}

\* the deletions among a handler's gateway calls, in order
Deletions(msgs) == SelectSeq(msgs, LAMBDA m : m.what = "delete")
\* the gateway calls with the addressee of the notices replaced by `to`
NoticesTo(msgs, to) ==
    [i \in DOMAIN msgs |-> IF msgs[i].what = "delete" THEN msgs[i] ELSE [msgs[i] EXCEPT !.to = to]]

\* C34: had any other user triggered the same callback data, with the same
\* results of the two deletions, DeleteMessageHandler would have attempted
\* the same deletions and taken the same exit; only the addressee of the
\* notice differs.
C34_RequesterIndependent ==
    last.op = "delete" =>
        /\ \A other \in Ids :
             \A r \in {DeleteMessageHandler(other, last.data, last.okSend, last.okPartner)} :
                /\ Deletions(r.sent) = Deletions(sent)
                /\ r.last.out = last.out
                /\ r.sent = NoticesTo(sent, other)
        /\ \A i \in DOMAIN sent : sent[i].what # "delete" => sent[i].to = last.user
\* both deletions done for a requester who is neither of the two chats
C34_Witness ==
    /\ last.op = "delete"
    /\ last.out = "deleted"
    /\ Len(Deletions(sent)) = 2
    /\ last.user \notin {Coordinate(last.data, 1), Coordinate(last.data, 3)}

\* C35: as long as no store call has failed, a message HandleChat forwards
\* from X to Y finds partner(X) = Y and partner(Y) = X in the directory the
\* handler read.
C35_RelayMutual ==
    (~storeFault /\ last.op = "chat" /\ SentTo(last.arg, "forward") # {}) =>
        /\ PartnerBefore(last.user) = last.arg
        /\ PartnerBefore(last.arg) = last.user

\* C36: no user is recorded as their own partner, and a select whose target
\* is the initiator changes no partner key.
C36_NoSelfPairing ==
    /\ \A a \in Ids : PartnerOf(a) # a
    /\ (last.op = "select" /\ last.arg = last.user) => partner = prev

\* C37: in A's select of another user B, when the second write fails the
\* handler makes no gateway call and leaves partner(A) = B and no key for B,
\* every other key as it was; when the availability check or the first write
\* fails no partner key changes and no gateway call is made.
C37_PairStoreFailure ==
    /\ (last.op = "select" /\ last.out = "set2_err" /\ last.arg # last.user) =>
          /\ sent = <<>>
          /\ PartnerOf(last.user) = last.arg
          /\ last.arg \notin DOMAIN partner
          /\ \A k \in Ids \ {last.user} : PartnerOf(k) = PartnerBefore(k)
    /\ (last.op = "select" /\ last.out \in {"check_err", "set1_err"}) =>
          /\ sent = <<>>
          /\ partner = prev
\* the second write failed for an initiator who had another partner before
C37_Witness ==
    /\ last.op = "select"
    /\ last.out = "set2_err"
    /\ last.arg # last.user
    /\ PartnerBefore(last.user) \notin {0, last.arg}
    /\ PartnerOf(last.user) = last.arg

\* C30: the limiter admits at most one worker per interval: two consecutive
\* admissions are at least one interval apart, so the k-th recipient is not
\* admitted before k-1 intervals after the first admission; and no worker is
\* started before its admission, however fast the workers before it finish.
C30_AdmissionControl ==
    /\ Len(limiter.admitAt) = Len(job.worker)
    /\ Len(limiter.spawnAt) = Len(job.worker)
    /\ \A k \in Workers :
         /\ k > 1 => limiter.admitAt[k] >= limiter.admitAt[k - 1] + Interval
         /\ limiter.admitAt[k] >= limiter.admitAt[1] + (k - 1) * Interval
         /\ limiter.spawnAt[k] >= limiter.admitAt[k]
\* three admissions exactly one interval apart, every earlier worker already
\* counted when the third is started
C30_Witness ==
    /\ job.pc = "loop"
    /\ Len(job.worker) = 3
    /\ limiter.admitAt[3] = limiter.admitAt[1] + 2 * Interval
    /\ limiter.spawnAt[3] = limiter.admitAt[3]
    /\ \A w \in 1..2 : job.worker[w] \in {"counted_ok", "counted_err"}

\* C31: a state whose last successful save is TTLHours or more back is absent:
\* GetUserState finds none and getOrCreateUserState returns the 'start'
\* state; a state saved less than TTLHours ago is stored, however long ago it
\* was saved first, and a lookup returns it.
C31_StateExpiry ==
    /\ \A u \in DOMAIN expiry.age :
         IF expiry.age[u] >= TTLHours
         THEN /\ u \notin DOMAIN userState
              /\ GetUserState(userState, u) = NilState
              /\ getOrCreateUserState(userState, u, FALSE, FALSE).state = UState(stateStart, "")
         ELSE /\ u \in DOMAIN userState
              /\ GetUserState(userState, u) \in ExpiryStates
    /\ \A u \in DOMAIN userState : u \in DOMAIN expiry.age
    /\ (last.op = "get" /\ last.user \in DOMAIN expiry.age) =>
          (last.state = NilState <=> expiry.age[last.user] >= TTLHours)
\* a lookup finds nothing for a user whose state has expired, while the state
\* of another user, saved first more than TTLHours ago and again since, is
\* still stored some hours after its last save
C31_Witness ==
    /\ last.op = "get"
    /\ last.state = NilState
    /\ last.user \in DOMAIN expiry.age
    /\ \E v \in DOMAIN userState :
         /\ expiry.first[v] >= TTLHours
         /\ expiry.age[v] > 0
         /\ expiry.age[v] < TTLHours
         /\ GetUserState(userState, v) = UState(stateBroadcast, "all")

(* ============== properties of the menus and the composer ============== *)
\* C32: while the stored mode is Broadcast, a text equal to a label of the
\* broadcast menu keyboard is a command: no fan-out runs with such a text of
\* the operator as its payload.
C32_LabelsAreCommands ==
    (Running("SendMessage", "fanout") /\ Top.from = AdminID) =>
        Top.text \notin broadcastKeyboard

\* C33: when the operator's stored mode is AdminPanel and they send the label
\* the admin keyboard offers for the broadcast menu, the stored mode becomes
\* Broadcast; when they then send the audience label the menu offers
\* (part_001 295-303), the stored state becomes Broadcast with the category
\* of that label, one the composer resolves an audience for (no store call
\* failing).
C33_BroadcastReachable ==
    [][/\ (/\ Running("AdminHandler", "body")
           /\ Top.from = AdminID
           /\ Top.text \in adminKeyboard \ {"Close"}
           /\ StoredFor(userState, AdminID).State = stateAdminPanel
           /\ ~storeFault')
          => StoredFor(userState', AdminID).State = stateBroadcast
       /\ (/\ Running("SendMessage", "body")
           /\ Top.from = AdminID
           /\ Top.text = "All"
           /\ StoredFor(userState, AdminID).State = stateBroadcast
           /\ ~storeFault')
          => /\ StoredFor(userState', AdminID) =
                   UState(stateBroadcast, BroadcastTypeOf(Top.text))
             /\ ~AudienceErr(BroadcastTypeOf(Top.text), FALSE)]_vars

\* C38: one update causes at most one call of sendToUser for each recipient:
\* no worker calls it for a recipient an earlier fan-out of the same update
\* has called it for.
C38_OneFanOut ==
    \A w \in Workers : job.attempts[w] > 0 => job.admitted[w] \notin job.before

\* C39: when the composer returns before the loop (the audience cannot be
\* resolved, it is empty, or the progress notice cannot be sent), the state
\* store is as it was: the operator's stored mode is still Broadcast with the
\* same category.
C39_EarlyExitFrame ==
    [][(job' # job /\ job'.exit \in {"audience_error", "no_recipients", "status_failed"}) =>
          /\ userState' = userState
          /\ StoredFor(userState', job'.adminId).State = stateBroadcast
          /\ StoredFor(userState', job'.adminId).BroadCastType =
                StoredFor(userState, job'.adminId).BroadCastType]_vars
\* the composer has returned because the progress notice failed, with an
\* audience resolved, and the operator's state is still Broadcast for it
C39_Witness ==
    /\ job.exit = "status_failed"
    /\ job.userIds # <<>>
    /\ StoredFor(userState, job.adminId) = UState(stateBroadcast, "all")

====
